---- MODULE Spec2Model ----
(***************************************************************************)
(* Model of the DocMaster document structuring pipeline                    *)
(* (mainfolder/document_handler.py, section_predictor.py, main.py).        *)
(*                                                                         *)
(* Strings are sequences of one-character strings, so that strip, lower,   *)
(* title, the heading patterns and the caption pattern are computed on     *)
(* characters the way the Python code computes them.                       *)
(***************************************************************************)
EXTENDS Naturals, Integers, Sequences, FiniteSets, TLC

\* ------------------------------------------------------------------------
\* Characters and the str methods used by the parser
\* ------------------------------------------------------------------------
LowerChars == <<"a", "b", "c", "d", "e", "f", "g", "h", "i", "j", "k", "l", "m", "n", "o", "p", "q", "r", "s", "t", "u", "v", "w", "x", "y", "z">>
UpperChars == <<"A", "B", "C", "D", "E", "F", "G", "H", "I", "J", "K", "L", "M", "N", "O", "P", "Q", "R", "S", "T", "U", "V", "W", "X", "Y", "Z">>
DigitChars == <<"0", "1", "2", "3", "4", "5", "6", "7", "8", "9">>

\* Python's None; distinct from every string because its only item is not a
\* single character.
None == <<"None">>

Range(s) == {s[i] : i \in 1..Len(s)}

IsSpace(c) == c \in {" ", "\t", "\n", "\r"}

IsDigit(c) == c \in Range(DigitChars)

IsCased(c) == c \in Range(LowerChars) \cup Range(UpperChars)

IndexIn(c, s) == CHOOSE i \in 1..Len(s) : s[i] = c

LowerChar(c) == IF c \in Range(UpperChars) THEN LowerChars[IndexIn(c, UpperChars)] ELSE c

UpperChar(c) == IF c \in Range(LowerChars) THEN UpperChars[IndexIn(c, LowerChars)] ELSE c

\* str.lower()
Lower(s) == [i \in 1..Len(s) |-> LowerChar(s[i])]

\* str.title(): a cased character is upper-cased when the character before
\* it is uncased (or it is the first), lower-cased otherwise.
Title(s) == [i \in 1..Len(s) |-> IF i > 1 /\ IsCased(s[i - 1]) THEN LowerChar(s[i]) ELSE UpperChar(s[i])]

RECURSIVE LStrip(_)
LStrip(s) == IF s # <<>> /\ IsSpace(Head(s)) THEN LStrip(Tail(s)) ELSE s

RECURSIVE RStrip(_)
RStrip(s) == IF s # <<>> /\ IsSpace(s[Len(s)]) THEN RStrip(SubSeq(s, 1, Len(s) - 1)) ELSE s

\* str.strip()
Strip(s) == RStrip(LStrip(s))

\* number of leading characters of s that satisfy the class test
RECURSIVE SpanDigits(_)
SpanDigits(s) == IF s # <<>> /\ IsDigit(Head(s)) THEN 1 + SpanDigits(Tail(s)) ELSE 0

RECURSIVE SpanSpaces(_)
SpanSpaces(s) == IF s # <<>> /\ IsSpace(Head(s)) THEN 1 + SpanSpaces(Tail(s)) ELSE 0

Drop(s, n) == SubSeq(s, n + 1, Len(s))

StartsWith(s, p) == Len(s) >= Len(p) /\ SubSeq(s, 1, Len(p)) = p

\* sub in s
Contains(s, sub) == \E i \in 1..(Len(s) - Len(sub) + 1) : SubSeq(s, i, i + Len(sub) - 1) = sub

\* the maximal whitespace-free pieces of s, in order
RECURSIVE Words(_)
Words(s) ==
    LET t == LStrip(s)
        n == CHOOSE k \in 0..Len(t) : (\A i \in 1..k : ~IsSpace(t[i])) /\ (k = Len(t) \/ IsSpace(t[k + 1]))
    IN  IF t = <<>> THEN <<>> ELSE <<SubSeq(t, 1, n)>> \o Words(Drop(t, n))

\* " ".join(parts)
RECURSIVE JoinSpace(_)
JoinSpace(parts) ==
    IF parts = <<>> THEN <<>>
    ELSE IF Len(parts) = 1 THEN parts[1]
    ELSE parts[1] \o <<" ">> \o JoinSpace(Tail(parts))

\* str.splitlines() for the line boundaries "\n", "\r" and "\r\n"
RECURSIVE SplitLines(_)
SplitLines(s) ==
    IF s = <<>> THEN <<>>
    ELSE IF \E i \in 1..Len(s) : s[i] \in {"\n", "\r"}
         THEN LET n == CHOOSE i \in 1..Len(s) : s[i] \in {"\n", "\r"} /\ \A j \in 1..(i - 1) : s[j] \notin {"\n", "\r"}
                  m == IF s[n] = "\r" /\ n < Len(s) /\ s[n + 1] = "\n" THEN n + 1 ELSE n
              IN  <<SubSeq(s, 1, n - 1)>> \o SplitLines(Drop(s, m))
         ELSE <<s>>

\* ------------------------------------------------------------------------
\* Heading detection
\* ------------------------------------------------------------------------
\* SECTION_PATTERNS: each pattern is ^\s*(alternatives)\s*$ and each
\* alternative is a list of words separated by \s+.  An alternative is kept
\* as its list of words; the list order is the order of the patterns.
SECTION_PATTERNS ==
    << <<<<"a", "b", "s", "t", "r", "a", "c", "t">>>>,
       <<<<"i", "n", "t", "r", "o", "d", "u", "c", "t", "i", "o", "n">>>>,
       <<<<"l", "i", "t", "e", "r", "a", "t", "u", "r", "e">>, <<"r", "e", "v", "i", "e", "w">>>>,
       <<<<"b", "a", "c", "k", "g", "r", "o", "u", "n", "d">>>>,
       <<<<"m", "e", "t", "h", "o", "d", "o", "l", "o", "g", "y">>>>,
       <<<<"m", "a", "t", "e", "r", "i", "a", "l", "s">>, <<"a", "n", "d">>, <<"m", "e", "t", "h", "o", "d", "s">>>>,
       <<<<"m", "e", "t", "h", "o", "d", "s">>>>,
       <<<<"e", "x", "p", "e", "r", "i", "m", "e", "n", "t">>>>,
       <<<<"e", "x", "p", "e", "r", "i", "m", "e", "n", "t", "a", "l">>, <<"s", "e", "t", "u", "p">>>>,
       <<<<"r", "e", "s", "u", "l", "t", "s">>>>,
       <<<<"f", "i", "n", "d", "i", "n", "g", "s">>>>,
       <<<<"a", "n", "a", "l", "y", "s", "i", "s">>>>,
       <<<<"d", "i", "s", "c", "u", "s", "s", "i", "o", "n">>>>,
       <<<<"o", "b", "s", "e", "r", "v", "a", "t", "i", "o", "n", "s">>>>,
       <<<<"c", "o", "n", "c", "l", "u", "s", "i", "o", "n">>>>,
       <<<<"s", "u", "m", "m", "a", "r", "y">>>>,
       <<<<"c", "l", "o", "s", "i", "n", "g">>, <<"r", "e", "m", "a", "r", "k", "s">>>>,
       <<<<"f", "u", "t", "u", "r", "e">>, <<"w", "o", "r", "k">>>>,
       <<<<"r", "e", "c", "o", "m", "m", "e", "n", "d", "a", "t", "i", "o", "n", "s">>>>,
       <<<<"r", "e", "f", "e", "r", "e", "n", "c", "e", "s">>>>,
       <<<<"b", "i", "b", "l", "i", "o", "g", "r", "a", "p", "h", "y">>>>,
       <<<<"w", "o", "r", "k", "s">>, <<"c", "i", "t", "e", "d">>>> >>

\* variant of PatternMatches: the pattern is searched for anywhere in the
\* line instead of being matched against the whole line
PatternFound(words, candidate) == Contains(Words(candidate), words)

\* re.match(patt, candidate) for one alternative
PatternMatches(words, candidate) == Words(candidate) = words

\* re.match(r'^\s*\d+[\.\)]\s*(.+)$', l).  After the digits and the "." or
\* ")", \s* may take k whitespace characters provided that what is left for
\* (.+)$ is not empty and holds no "\n"; being greedy it takes the largest k.
NumberingRest(l) ==
    LET a == Drop(l, SpanSpaces(l)) IN Tail(Drop(a, SpanDigits(a)))

NumberingSkips(l) ==
    LET b == NumberingRest(l)
    IN  {k \in 0..SpanSpaces(b) : Drop(b, k) # <<>> /\ "\n" \notin Range(Drop(b, k))}

HasNumbering(l) ==
    LET a == Drop(l, SpanSpaces(l))
        d == SpanDigits(a)
    IN  /\ d >= 1
        /\ Len(a) > d
        /\ a[d + 1] \in {".", ")"}
        /\ NumberingSkips(l) # {}

\* group(1) of that match
NumberedGroup(l) ==
    LET ks == NumberingSkips(l)
    IN  Drop(NumberingRest(l), CHOOSE k \in ks : \A j \in ks : j <= k)

\* variant of StripNumbering: the numbering stays in the returned text
NumberingKept(text) == text

\* re.sub(r'^\s*\d+[\.\)]\s*', '', text)
StripNumbering(text) ==
    LET a == Drop(text, SpanSpaces(text))
        d == SpanDigits(a)
        b == Drop(a, d)
    IN  IF d >= 1 /\ b # <<>> /\ Head(b) \in {".", ")"}
        THEN Drop(Tail(b), SpanSpaces(Tail(b)))
        ELSE text

\* DocumentHandler._detect_heading
DetectHeading(text) ==
    IF text = <<>> THEN None
    ELSE LET l == Strip(Lower(text))
             candidate == IF HasNumbering(l) THEN Strip(NumberedGroup(l)) ELSE l
         IN  IF \E i \in 1..Len(SECTION_PATTERNS) : PatternMatches(SECTION_PATTERNS[i], candidate)
             THEN Title(Strip(StripNumbering(text)))
             ELSE None

\* ------------------------------------------------------------------------
\* Caption detection
\* ------------------------------------------------------------------------
\* Python truthiness of an optional string
Truthy(s) == s # None /\ s # <<>>

\* FIGURE_CAPTION_PATTERN.match(s):
\* ^(fig(ure)?\s*\d+[:.\-)]\s+).*  with re.IGNORECASE
FIGURE_CAPTION_PATTERN(s) ==
    LET l == Lower(s)
        a == IF StartsWith(l, <<"f", "i", "g">>) THEN Drop(l, 3) ELSE <<>>
        b == IF StartsWith(a, <<"u", "r", "e">>) THEN Drop(a, 3) ELSE a
        c == Drop(b, SpanSpaces(b))
        d == Drop(c, SpanDigits(c))
    IN  /\ StartsWith(l, <<"f", "i", "g">>)
        /\ SpanDigits(c) >= 1
        /\ d # <<>>
        /\ Head(d) \in {":", ".", "-", ")"}
        /\ SpanSpaces(Tail(d)) >= 1

\* variant of DetectCaption: the current line is looked at before the
\* previous one
DetectCaptionCurrentFirst(previous, current) ==
    IF Truthy(current) /\ FIGURE_CAPTION_PATTERN(current) THEN current
    ELSE IF Truthy(previous) /\ FIGURE_CAPTION_PATTERN(previous) THEN previous
    ELSE None

\* DocumentHandler._detect_caption
DetectCaption(previous, current) ==
    IF Truthy(previous) /\ FIGURE_CAPTION_PATTERN(previous) THEN previous
    ELSE IF Truthy(current) /\ FIGURE_CAPTION_PATTERN(current) THEN current
    ELSE None

\* ------------------------------------------------------------------------
\* The content model
\* ------------------------------------------------------------------------
\* A Python dict is the sequence of its items [k, v] in insertion order.
Keys(d) == {d[i].k : i \in 1..Len(d)}

KeyList(d) == [i \in 1..Len(d) |-> d[i].k]

Has(d, key) == key \in Keys(d)

\* d[key]
Get(d, key) == d[CHOOSE i \in 1..Len(d) : d[i].k = key].v

\* d.get(key)
GetOrNone(d, key) == IF Has(d, key) THEN Get(d, key) ELSE None

\* d[key] = val
Put(d, key, val) ==
    IF Has(d, key) THEN [i \in 1..Len(d) |-> IF d[i].k = key THEN [k |-> key, v |-> val] ELSE d[i]]
    ELSE Append(d, [k |-> key, v |-> val])

\* variant of AppendTo: the element is inserted at the front of the list
PrependTo(d, key, el) == Put(d, key, <<el>> \o Get(d, key))

\* d[key].append(el)
AppendTo(d, key, el) == Put(d, key, Append(Get(d, key), el))

RECURSIVE AppendAllTo(_, _, _)
AppendAllTo(d, key, els) ==
    IF els = <<>> THEN d ELSE AppendAllTo(AppendTo(d, key, Head(els)), key, Tail(els))

TextEl(content) == [type |-> "text", content |-> content]

TableEl(rows) == [type |-> "table", data |-> rows]

ImageEl(path, caption, alt_text, virtual) ==
    [type |-> "image", path |-> path, caption |-> caption, alt_text |-> alt_text, virtual |-> virtual]

Uncategorized == <<"U", "n", "c", "a", "t", "e", "g", "o", "r", "i", "z", "e", "d">>

\* ------------------------------------------------------------------------
\* State
\* ------------------------------------------------------------------------
\* heap[o] is the content of dict object o; sections is the object that
\* self.sections refers to.  The remaining handler fields and the locals of
\* the running parse are held by value.
VARIABLES heap, sections, detected_order, last_text,
          pc, error, input, todo, current_section, buffer, image_map,
          pre, held, held_value, prev, used, call

vars == <<heap, sections, detected_order, last_text,
          pc, error, input, todo, current_section, buffer, image_map,
          pre, held, held_value, prev, used, call>>

ObjIds == {0, 1, 2}

NoInput == [kind |-> "none"]

\* the dict self.sections refers to
Model == heap[sections]

\* a (re)binding self.sections = {...} creates a new dict object; the
\* object left behind is collected unless the caller still holds it
NewObj == CHOOSE o \in ObjIds : o # sections /\ o # held /\ \A p \in ObjIds : (p # sections /\ p # held) => o <= p

Rebind(o, d) == [p \in ObjIds |-> IF p = o THEN d ELSE IF p = held THEN heap[p] ELSE <<>>]

\* ------------------------------------------------------------------------
\* parse_text
\* ------------------------------------------------------------------------
\* The running parse: the dict content, the order list, the section cursor,
\* the line buffer and _last_text.
Frame(secs, order, cur, buf, last) ==
    [secs |-> secs, order |-> order, cur |-> cur, buf |-> buf, last |-> last]

\* variant of Seed: self.sections and self.detected_order are not replaced
\* by new empty ones before the seeding
SeedOverOld(last) ==
    Frame(Put(Model, Uncategorized, <<>>), Append(detected_order, Uncategorized), Uncategorized, <<>>, last)

\* parse_text lines 64-71 / parse_docx lines 112-115: the seeded model
Seed(last) == Frame(<<[k |-> Uncategorized, v |-> <<>>]>>, <<Uncategorized>>, Uncategorized, <<>>, last)

\* variant of Flush: a paragraph is emitted at every flush, whatever the
\* buffer holds
FlushAlways(f) ==
    [f EXCEPT !.secs = AppendTo(@, f.cur, TextEl(Strip(JoinSpace(f.buf)))),
              !.buf = <<>>]

\* flush() of parse_text
Flush(f) ==
    IF f.buf # <<>>
    THEN LET para == Strip(JoinSpace(f.buf))
         IN  [f EXCEPT !.secs = IF para # <<>> THEN AppendTo(@, f.cur, TextEl(para)) ELSE @,
                       !.buf = <<>>]
    ELSE f

\* variant of EnterSection: the name is appended to the order list without
\* the membership test
EnterSectionAlways(f, heading) ==
    [f EXCEPT !.cur = heading,
              !.secs = IF Has(f.secs, heading) THEN @ ELSE Append(@, [k |-> heading, v |-> <<>>]),
              !.order = Append(@, heading)]

\* the section cursor moves to a detected heading
EnterSection(f, heading) ==
    [f EXCEPT !.cur = heading,
              !.secs = IF Has(f.secs, heading) THEN @ ELSE Append(@, [k |-> heading, v |-> <<>>]),
              !.order = IF Has(f.secs, heading) THEN @ ELSE Append(@, heading)]

\* variant of TextLineStep: a heading does not flush the buffer
TextLineStepNoFlush(f, line) ==
    LET stripped == Strip(line)
        heading == DetectHeading(stripped)
    IN  IF stripped = <<>> THEN Flush(f)
        ELSE IF Truthy(heading) THEN EnterSection(f, heading)
        ELSE [f EXCEPT !.buf = Append(@, stripped)]

\* one iteration of the loop over text.splitlines()
TextLineStep(f, line) ==
    LET stripped == Strip(line)
        heading == DetectHeading(stripped)
    IN  IF stripped = <<>> THEN Flush(f)
        ELSE IF Truthy(heading) THEN EnterSection(Flush(f), heading)
        ELSE [f EXCEPT !.buf = Append(@, stripped)]

\* variant of Cleanup: empty sections are kept
CleanupKeepsEmpty(f) == f

\* DocumentHandler._cleanup
Cleanup(f) ==
    LET kept == SelectSeq(f.secs, LAMBDA it : it.v # <<>>)
    IN  [f EXCEPT !.secs = kept,
                  !.order = SelectSeq(f.order, LAMBDA s : s \in Keys(kept))]

RECURSIVE TextWalk(_, _)
TextWalk(f, ls) == IF ls = <<>> THEN f ELSE TextWalk(TextLineStep(f, Head(ls)), Tail(ls))

\* parse_text on a handler whose _last_text is last
ParseText(text, last) == Cleanup(Flush(TextWalk(Seed(last), SplitLines(text))))

\* ------------------------------------------------------------------------
\* parse_docx
\* ------------------------------------------------------------------------
\* os.path.join(image_dir, os.path.basename(part.partname))
OutPath(partname) == <<"docmaster_images", partname>>

\* variant of ExtractAllImages: the first failing relationship ends the loop
RECURSIVE ExtractAllImagesStopAtFailure(_, _)
ExtractAllImagesStopAtFailure(rels, map) ==
    IF rels = <<>> THEN map
    ELSE LET rel == Head(rels)
         IN  IF rel.is_image /\ ~rel.ok THEN map
             ELSE IF rel.is_image
             THEN ExtractAllImagesStopAtFailure(Tail(rels), Put(map, rel.rId, OutPath(rel.partname)))
             ELSE ExtractAllImagesStopAtFailure(Tail(rels), map)

\* DocumentHandler._extract_all_images: a relationship whose image cannot be
\* read or written raises inside the try and is skipped
RECURSIVE ExtractAllImages(_, _)
ExtractAllImages(rels, map) ==
    IF rels = <<>> THEN map
    ELSE LET rel == Head(rels)
         IN  IF rel.is_image /\ rel.ok
             THEN ExtractAllImages(Tail(rels), Put(map, rel.rId, OutPath(rel.partname)))
             ELSE ExtractAllImages(Tail(rels), map)

\* DocumentHandler._extract_images_from_paragraph
ExtractImagesFromParagraph(para, map) ==
    [j \in 1..Len(para.embeds) |->
        ImageEl(GetOrNone(map, para.embeds[j].rId), None,
                IF Truthy(para.embeds[j].descr) THEN para.embeds[j].descr ELSE <<>>, FALSE)]

\* variant of ParagraphStep: an image paragraph does not become the previous
\* line of the next paragraph
ParagraphStepImageNotLast(f, para, map) ==
    LET txt == Strip(para.text)
        heading == IF txt # <<>> THEN DetectHeading(txt) ELSE None
        imgs == ExtractImagesFromParagraph(para, map)
        caption == DetectCaption(f.last, txt)
    IN  IF Truthy(heading) THEN [EnterSection(f, heading) EXCEPT !.last = txt]
        ELSE IF imgs # <<>>
        THEN [f EXCEPT !.secs = AppendAllTo(@, f.cur, [j \in 1..Len(imgs) |-> [imgs[j] EXCEPT !.caption = caption]])]
        ELSE [f EXCEPT !.secs = IF txt # <<>> THEN AppendTo(@, f.cur, TextEl(txt)) ELSE @,
                       !.last = txt]

\* paragraph branch of the body loop, lines 128-157
ParagraphStep(f, para, map) ==
    LET txt == Strip(para.text)
        heading == IF txt # <<>> THEN DetectHeading(txt) ELSE None
        imgs == ExtractImagesFromParagraph(para, map)
        caption == DetectCaption(f.last, txt)
    IN  IF Truthy(heading) THEN [EnterSection(f, heading) EXCEPT !.last = txt]
        ELSE IF imgs # <<>>
        THEN [f EXCEPT !.secs = AppendAllTo(@, f.cur, [j \in 1..Len(imgs) |-> [imgs[j] EXCEPT !.caption = caption]]),
                       !.last = txt]
        ELSE [f EXCEPT !.secs = IF txt # <<>> THEN AppendTo(@, f.cur, TextEl(txt)) ELSE @,
                       !.last = txt]

\* variant of TableStep: the table goes to the first section of the order
TableStepIntoFirst(f, tbl) ==
    LET rows == [r \in 1..Len(tbl.rows) |-> [c \in 1..Len(tbl.rows[r]) |-> Strip(tbl.rows[r][c])]]
    IN  [f EXCEPT !.secs = AppendTo(@, Head(f.order), TableEl(rows))]

\* table branch of the body loop, lines 160-168
TableStep(f, tbl) ==
    LET rows == [r \in 1..Len(tbl.rows) |-> [c \in 1..Len(tbl.rows[r]) |-> Strip(tbl.rows[r][c])]]
    IN  [f EXCEPT !.secs = AppendTo(@, f.cur, TableEl(rows))]

\* one iteration of the loop over doc.element.body
DocxBlockStep(f, block, map) ==
    IF block.type = "p" THEN ParagraphStep(f, block, map)
    ELSE IF block.type = "tbl" THEN TableStep(f, block)
    ELSE f

\* The library calls of one iteration raise: reading the rows or cells of a
\* malformed table, or the runs of a malformed paragraph that is reached
\* because its text is no heading.  The loop has no handler.
BlockRaises(block) ==
    /\ block.fails
    /\ \/ block.type = "tbl"
       \/ block.type = "p" /\ ~Truthy(IF Strip(block.text) # <<>> THEN DetectHeading(Strip(block.text)) ELSE None)

RECURSIVE DocxWalk(_, _, _)
DocxWalk(f, blocks, map) ==
    IF blocks = <<>> \/ BlockRaises(Head(blocks)) THEN f
    ELSE DocxWalk(DocxBlockStep(f, Head(blocks), map), Tail(blocks), map)

WalkRaises(blocks) == \E j \in 1..Len(blocks) : BlockRaises(blocks[j])

\* parse_docx of a document that is read and walked to the end
ParseDocx(doc) == Cleanup(DocxWalk(Seed(None), doc.body, ExtractAllImages(doc.rels, <<>>)))

\* ------------------------------------------------------------------------
\* Virtual figures and the section classifier
\* ------------------------------------------------------------------------
\* None where a dict is returned otherwise
NoElement == [type |-> "None"]

\* keywords of detect_virtual_image
VirtualKeywords == {<<"f", "i", "g", "u", "r", "e">>, <<"f", "i", "g", ".">>, <<"g", "r", "a", "p", "h">>, <<"c", "h", "a", "r", "t">>, <<"p", "l", "o", "t">>, <<"d", "i", "a", "g", "r", "a", "m">>}

\* variant of DetectVirtualImage: the keywords are looked for in the text as
\* written
DetectVirtualImageAsWritten(paragraph_text) ==
    IF paragraph_text = <<>> THEN NoElement
    ELSE IF \E k \in VirtualKeywords : Contains(paragraph_text, k)
    THEN ImageEl(None, paragraph_text, <<>>, TRUE)
    ELSE NoElement

\* DocumentHandler.detect_virtual_image
DetectVirtualImage(paragraph_text) ==
    IF paragraph_text = <<>> THEN NoElement
    ELSE IF \E k \in VirtualKeywords : Contains(Lower(paragraph_text), k)
    THEN ImageEl(None, paragraph_text, <<>>, TRUE)
    ELSE NoElement

REFERENCES == <<"R", "E", "F", "E", "R", "E", "N", "C", "E", "S">>

CUSTOM == <<"C", "U", "S", "T", "O", "M">>

\* keywords of _rule_based_label
CustomKeywords ==
    {<<"a", "c", "k", "n", "o", "w", "l", "e", "d", "g">>,
     <<"a", "c", "k", "n", "o", "w", "l", "e", "d", "g", "e", "m", "e", "n", "t">>,
     <<"a", "c", "k", "n", "o", "w", "l", "e", "d", "g", "m", "e", "n", "t">>,
     <<"d", "e", "c", "l", "a", "r", "a", "t", "i", "o", "n">>,
     <<"c", "e", "r", "t", "i", "f", "i", "c", "a", "t", "e">>,
     <<"p", "l", "a", "g", "i", "a", "r", "i", "s", "m">>,
     <<"b", "o", "n", "a", " ", "f", "i", "d", "e">>,
     <<"s", "u", "p", "e", "r", "v", "i", "s", "o", "r", " ", "c", "e", "r", "t", "i", "f", "i", "c", "a", "t", "e">>}

\* re.match(r"^\[\d+\]", s)
StartsWithBracketedNumber(s) ==
    /\ s # <<>>
    /\ Head(s) = "["
    /\ SpanDigits(Tail(s)) >= 1
    /\ Len(s) >= SpanDigits(Tail(s)) + 2
    /\ s[SpanDigits(Tail(s)) + 2] = "]"

\* variant of RuleBasedLabel: the classifier's label is kept for a text
\* that starts with a bracketed number
RuleBasedLabelNoBracket(text) ==
    LET low == Strip(Lower(text))
    IN  IF Contains(low, <<"d", "o", "i", ".", "o", "r", "g">>) \/ Contains(low, <<"h", "t", "t", "p", ":", "/", "/">>) \/ Contains(low, <<"h", "t", "t", "p", "s", ":", "/", "/">>) THEN REFERENCES
        ELSE IF \E k \in CustomKeywords : Contains(low, k) THEN CUSTOM
        ELSE None

\* section_predictor._rule_based_label
RuleBasedLabel(text) ==
    LET low == Strip(Lower(text))
    IN  IF StartsWithBracketedNumber(Strip(text)) THEN REFERENCES
        ELSE IF Contains(low, <<"d", "o", "i", ".", "o", "r", "g">>) \/ Contains(low, <<"h", "t", "t", "p", ":", "/", "/">>) \/ Contains(low, <<"h", "t", "t", "p", "s", ":", "/", "/">>) THEN REFERENCES
        ELSE IF \E k \in CustomKeywords : Contains(low, k) THEN CUSTOM
        ELSE None

\* the length below which predict_section answers CUSTOM
ShortText == 20

\* variant of PredictSection: the rules are tried before the length test
PredictSectionRulesFirst(text, predicted) ==
    LET t == Strip(text)
    IN  IF Truthy(RuleBasedLabel(t)) THEN RuleBasedLabel(t)
        ELSE IF Len(t) < ShortText THEN CUSTOM
        ELSE predicted

\* section_predictor.predict_section with the label CLASSIFIER.predict gives
\* for the text
PredictSection(text, predicted) ==
    LET t == Strip(text)
    IN  IF Len(t) < ShortText THEN CUSTOM
        ELSE IF Truthy(RuleBasedLabel(t)) THEN RuleBasedLabel(t)
        ELSE predicted

\* flush() of the classifier-assisted parse_text (lines 373-385), predicted
\* being the label CLASSIFIER.predict gives
HybridFlush(f, predicted) ==
    IF f.buf # <<>>
    THEN LET para == Strip(JoinSpace(f.buf))
             g == EnterSection(f, Title(PredictSection(para, predicted)))
         IN  IF para # <<>>
             THEN [g EXCEPT !.secs = AppendTo(@, g.cur, TextEl(para)), !.buf = <<>>]
             ELSE [f EXCEPT !.buf = <<>>]
    ELSE f

\* one iteration of the loop of the classifier-assisted parse_text
HybridTextLineStep(f, line, predicted) ==
    LET stripped == Strip(line)
        heading == DetectHeading(stripped)
    IN  IF stripped = <<>> THEN HybridFlush(f, predicted)
        ELSE IF Truthy(heading) THEN EnterSection(HybridFlush(f, predicted), heading)
        ELSE [f EXCEPT !.buf = Append(@, stripped)]

RECURSIVE HybridTextWalk(_, _, _)
HybridTextWalk(f, ls, predicted) ==
    IF ls = <<>> THEN f ELSE HybridTextWalk(HybridTextLineStep(f, Head(ls), predicted), Tail(ls), predicted)

\* the classifier-assisted parse_text, lines 359-403
HybridParseText(text, predicted) ==
    Cleanup(HybridFlush(HybridTextWalk(Seed(None), SplitLines(text), predicted), predicted))

\* Importing section_predictor loads the model at module level: without the
\* model directory or its pickles the import raises and no call of
\* predict_section can be made.
PredictSectionRaises(text, available) == ~available

\* ------------------------------------------------------------------------
\* Inputs
\* ------------------------------------------------------------------------
MaxLines == 2

MaxBlocks == 2

BoundedSeqs(S, n) == UNION {[1..k -> S] : k \in 0..n}

RECURSIVE JoinLines(_)
JoinLines(ls) ==
    IF ls = <<>> THEN <<>>
    ELSE IF Len(ls) = 1 THEN ls[1]
    ELSE ls[1] \o <<"\n">> \o JoinLines(Tail(ls))

\* lines a text is made of: blank, heading, numbered heading, body text
TextLines == {<<>>, <<"A", "b", "s", "t", "r", "a", "c", "t">>, <<"2", ")", " ", "m", "e", "t", "h", "o", "d", "s">>, <<" ", "x", " ", "y">>}

Revisit == <<"A", "b", "s", "t", "r", "a", "c", "t", "\n", "x", "\n", "\n", "2", ")", " ", "m", "e", "t", "h", "o", "d", "s", "\n", "y", "\n", "z", "\n", "\n", "A", "b", "s", "t", "r", "a", "c", "t", "\n", "w">>

\* a heading seen before comes right after a body line
RevisitAdjacent == <<"A", "b", "s", "t", "r", "a", "c", "t", "\n", "x", "\n", "2", ")", " ", "m", "e", "t", "h", "o", "d", "s", "\n", "y", "\n", "A", "b", "s", "t", "r", "a", "c", "t", "\n", "w">>

WhitespaceOnly == <<" ", " ", "\n", "\t", "\n">>

EndToEnd == <<"A", "b", "s", "t", "r", "a", "c", "t", "\n", "T", "h", "i", "s", " ", "p", "a", "p", "e", "r", " ", "s", "t", "u", "d", "i", "e", "s", " ", "X", ".", "\n", "\n", "I", "n", "t", "r", "o", "d", "u", "c", "t", "i", "o", "n", "\n", "W", "e", " ", "b", "e", "g", "i", "n", " ", "w", "i", "t", "h", " ", "Y", ".", "\n", "\n">>

ExampleTexts ==
    { EndToEnd, Revisit, RevisitAdjacent, WhitespaceOnly,
      <<"A", "b", "s", "t", "r", "a", "c", "t", "\n", " ", "x", " ", "y", "\n", "A", "b", "s", "t", "r", "a", "c", "t", "\n">>,
      <<"T", "h", "e", " ", "i", "n", "t", "r", "o", "d", "u", "c", "t", "i", "o", "n", " ", "o", "f", " ", "n", "e", "w", " ", "m", "e", "t", "h", "o", "d", "s", "\n", "1", ".", " ", "I", "n", "t", "r", "o", "d", "u", "c", "t", "i", "o", "n", "\r", "\n", "x">> }

\* texts given to a handler that has parsed before
ReuseTexts == {Revisit, WhitespaceOnly}

\* values of the parameter text of parse_text
Texts == {JoinLines(ls) : ls \in BoundedSeqs(TextLines, MaxLines)} \cup ExampleTexts

\* body blocks of a document: w:p, w:tbl and anything else (w:sectPr)
Para(text, embeds, fails) == [type |-> "p", text |-> text, embeds |-> embeds, rows |-> <<>>, fails |-> fails]

Tbl(rows, fails) == [type |-> "tbl", text |-> <<>>, embeds |-> <<>>, rows |-> rows, fails |-> fails]

OtherBlock == [type |-> "other", text |-> <<>>, embeds |-> <<>>, rows |-> <<>>, fails |-> FALSE]

Embed(rId) == [rId |-> rId, descr |-> None]

Rel(rId, is_image, partname, ok) == [rId |-> rId, is_image |-> is_image, partname |-> partname, ok |-> ok]

\* relationships of the document part; FailedFirst has an image that cannot
\* be extracted
AllExtracted == <<Rel("rId1", TRUE, "image1.png", TRUE), Rel("rId2", FALSE, "styles.xml", TRUE), Rel("rId3", TRUE, "image2.png", TRUE)>>

FailedFirst == <<Rel("rId1", TRUE, "image1.png", FALSE), Rel("rId2", FALSE, "styles.xml", TRUE), Rel("rId3", TRUE, "image2.png", TRUE)>>

DocBlocks ==
    { Para(<<"R", "e", "s", "u", "l", "t", "s">>, <<>>, FALSE),
      Para(<<"F", "i", "g", "u", "r", "e", " ", "1", ":", " ", "c">>, <<>>, FALSE),
      Para(<<" ", "x">>, <<Embed("rId1"), Embed("rId3")>>, FALSE),
      Tbl(<< <<<<"a", " ">>>> >>, FALSE) }

Mixed ==
    <<Para(<<"x">>, <<>>, FALSE), Tbl(<< <<<<" ", "a", " ">>, <<"b">>>>, <<<<"c">>>> >>, FALSE), OtherBlock,
      Para(<<>>, <<>>, FALSE), Para(<<>>, <<Embed("rId1")>>, FALSE), Para(<<"F", "i", "g", " ", "2", ".", " ", "d">>, <<Embed("rId3")>>, FALSE)>>

RepeatedHeading ==
    <<Para(<<"R", "e", "s", "u", "l", "t", "s">>, <<>>, FALSE), Tbl(<< <<<<"a">>>> >>, FALSE), Para(<<"1", ".", " ", "M", "e", "t", "h", "o", "d", "s">>, <<>>, FALSE),
      Para(<<"m">>, <<>>, FALSE), Para(<<"R", "E", "S", "U", "L", "T", "S">>, <<Embed("rId1")>>, FALSE), Para(<<"r">>, <<>>, FALSE)>>

\* text, a table with rows of unequal lengths and image paragraphs under a
\* heading, then a heading paragraph that holds an image
Sectioned ==
    <<Para(<<"M", "e", "t", "h", "o", "d", "s">>, <<>>, FALSE),
      Para(<<"m">>, <<>>, FALSE),
      Tbl(<< <<<<" ", "a", " ">>, <<"b">>>>, <<<<"c">>>> >>, FALSE),
      Para(<<"F", "i", "g", "u", "r", "e", " ", "1", ":", " ", "c">>, <<Embed("rId1"), Embed("rId3")>>, FALSE),
      Para(<<"s", "e", "e", " ", "i", "t">>, <<Embed("rId3")>>, FALSE),
      Para(<<"R", "e", "s", "u", "l", "t", "s">>, <<Embed("rId1")>>, FALSE),
      Para(<<"r">>, <<>>, FALSE)>>

BadParagraph ==
    <<Para(<<"x">>, <<>>, FALSE), Para(<<"y">>, <<Embed("rId9")>>, TRUE), Para(<<"z">>, <<>>, FALSE)>>

ImageFirst ==
    <<Para(<<>>, <<Embed("rId1"), Embed("rId3")>>, FALSE), Para(<<"F", "i", "g", "u", "r", "e", " ", "3", ":", " ", "e">>, <<>>, FALSE)>>

BadTable ==
    <<Para(<<"x">>, <<>>, FALSE), Tbl(<<>>, TRUE), Para(<<"z">>, <<>>, FALSE)>>

Doc(readable, rels, body) == [readable |-> readable, rels |-> rels, body |-> body]

Unreadable == Doc(FALSE, <<>>, <<>>)

ExampleDocs ==
    { Doc(TRUE, AllExtracted, Mixed), Doc(TRUE, FailedFirst, Mixed), Doc(TRUE, AllExtracted, RepeatedHeading),
      Doc(TRUE, AllExtracted, Sectioned),
      Doc(TRUE, AllExtracted, BadParagraph), Doc(TRUE, FailedFirst, ImageFirst), Doc(TRUE, AllExtracted, BadTable),
      Unreadable }

\* documents given to a handler that has parsed before
ReuseDocs == {Doc(TRUE, FailedFirst, ImageFirst), Doc(TRUE, AllExtracted, BadTable), Unreadable}

HasEmbed(body) == \E j \in 1..Len(body) : body[j].embeds # <<>>

\* documents behind the parameter path of parse_docx
Docs ==
    {Doc(TRUE, AllExtracted, body) : body \in BoundedSeqs(DocBlocks, MaxBlocks)}
    \cup {Doc(TRUE, FailedFirst, body) : body \in {b \in BoundedSeqs(DocBlocks, MaxBlocks) : HasEmbed(b)}}
    \cup ExampleDocs

\* ------------------------------------------------------------------------
\* Operations
\* ------------------------------------------------------------------------
NoObj == 0 - 1

NoPre == [secs |-> <<>>, order |-> <<>>, obj |-> NoObj]

NoPrev == [input |-> NoInput, order |-> <<>>]

\* no helper has been called
NoCall == [fn |-> "none"]

\* DocumentHandler.__init__
Init ==
    /\ heap = [o \in ObjIds |-> <<>>]
    /\ sections = 0
    /\ detected_order = <<>>
    /\ last_text = None
    /\ pc = "idle"
    /\ error = "none"
    /\ input = NoInput
    /\ todo = <<>>
    /\ current_section = <<>>
    /\ buffer = <<>>
    /\ image_map = <<>>
    /\ pre = NoPre
    /\ held = NoObj
    /\ held_value = <<>>
    /\ prev = NoPrev
    /\ used = FALSE
    /\ call = NoCall

\* A new handler is given any input; a handler that has parsed before is
\* given one of the reuse inputs or the input of its last completed parse
\* again.
TextChoices ==
    IF ~used THEN Texts
    ELSE ReuseTexts \cup (IF prev.input.kind = "text" THEN {prev.input.text} ELSE {})

DocChoices ==
    IF ~used THEN Docs
    ELSE ReuseDocs \cup (IF prev.input.kind = "docx" THEN {prev.input.doc} ELSE {})

\* the frame of the running parse
CurFrame == Frame(Model, detected_order, current_section, buffer, last_text)

\* variant of SeedObj: the dict self.sections refers to is emptied and kept
SeedObjReused == sections

\* the object bound by self.sections = {} at the start of a parse
SeedObj == NewObj

\* the object bound by the dict comprehension of _cleanup
CleanupObj == NewObj

\* self.doc_handler = DocumentHandler() of the importing application: the
\* old handler and the models it returned are dropped
Construct ==
    /\ pc = "idle"
    /\ used
    /\ sections' = 0
    /\ heap' = [o \in ObjIds |-> <<>>]
    /\ detected_order' = <<>>
    /\ last_text' = None
    /\ error' = "none"
    /\ held' = NoObj
    /\ held_value' = <<>>
    /\ prev' = NoPrev
    /\ used' = FALSE
    /\ UNCHANGED <<pc, input, todo, current_section, buffer, image_map, pre, call>>

\* variant of ParseTextStart: the section cursor of the handler is kept
ParseTextStartKeepsCursor(text) ==
    /\ pc = "idle"
    /\ LET f == Seed(last_text)
       IN  /\ sections' = SeedObj
           /\ heap' = Rebind(SeedObj, f.secs)
           /\ detected_order' = f.order
           /\ current_section' = current_section
           /\ buffer' = f.buf
    /\ pc' = "parse_text"
    /\ error' = "none"
    /\ input' = [kind |-> "text", text |-> text]
    /\ todo' = SplitLines(text)
    /\ pre' = [secs |-> Model, order |-> detected_order, obj |-> sections]
    /\ used' = TRUE
    /\ UNCHANGED <<last_text, image_map, held, held_value, prev, call>>

\* parse_text, lines 64-71 and the call of splitlines
ParseTextStart(text) ==
    /\ pc = "idle"
    /\ LET f == Seed(last_text)
       IN  /\ sections' = SeedObj
           /\ heap' = Rebind(SeedObj, f.secs)
           /\ detected_order' = f.order
           /\ current_section' = f.cur
           /\ buffer' = f.buf
    /\ pc' = "parse_text"
    /\ error' = "none"
    /\ input' = [kind |-> "text", text |-> text]
    /\ todo' = SplitLines(text)
    /\ pre' = [secs |-> Model, order |-> detected_order, obj |-> sections]
    /\ used' = TRUE
    /\ UNCHANGED <<last_text, image_map, held, held_value, prev, call>>

\* variant of TextLine: at a heading the cursor moves before the buffer is
\* flushed
TextLineCursorFirst ==
    /\ pc = "parse_text"
    /\ todo # <<>>
    /\ LET stripped == Strip(Head(todo))
           heading == DetectHeading(stripped)
           f == IF stripped # <<>> /\ Truthy(heading)
                THEN Flush(EnterSection(CurFrame, heading))
                ELSE TextLineStep(CurFrame, Head(todo))
       IN  /\ heap' = [heap EXCEPT ![sections] = f.secs]
           /\ detected_order' = f.order
           /\ current_section' = f.cur
           /\ buffer' = f.buf
    /\ todo' = Tail(todo)
    /\ UNCHANGED <<sections, last_text, pc, error, input, image_map, pre, held, held_value, prev, used, call>>

\* parse_text, one iteration of the loop of lines 84-98
TextLine ==
    /\ pc = "parse_text"
    /\ todo # <<>>
    /\ LET f == TextLineStep(CurFrame, Head(todo))
       IN  /\ heap' = [heap EXCEPT ![sections] = f.secs]
           /\ detected_order' = f.order
           /\ current_section' = f.cur
           /\ buffer' = f.buf
    /\ todo' = Tail(todo)
    /\ UNCHANGED <<sections, last_text, pc, error, input, image_map, pre, held, held_value, prev, used, call>>

\* variant of Finish: the order list is stored back to front
FinishOrderReversed(f) ==
    /\ sections' = CleanupObj
    /\ heap' = Rebind(CleanupObj, f.secs)
    /\ detected_order' = [i \in 1..Len(f.order) |-> f.order[Len(f.order) - i + 1]]
    /\ current_section' = f.cur
    /\ buffer' = f.buf
    /\ pc' = "return"
    /\ UNCHANGED <<last_text, error, input, todo, image_map, pre, held, held_value, prev, used, call>>

\* the end of either parse: the final flush (parse_text) and _cleanup
Finish(f) ==
    /\ sections' = CleanupObj
    /\ heap' = Rebind(CleanupObj, f.secs)
    /\ detected_order' = f.order
    /\ current_section' = f.cur
    /\ buffer' = f.buf
    /\ pc' = "return"
    /\ UNCHANGED <<last_text, error, input, todo, image_map, pre, held, held_value, prev, used, call>>

\* variant of ParseTextEnd: the lines still buffered at the end are dropped
ParseTextEndNoFlush ==
    /\ pc = "parse_text"
    /\ todo = <<>>
    /\ Finish(Cleanup(CurFrame))

\* parse_text, lines 100-101
ParseTextEnd ==
    /\ pc = "parse_text"
    /\ todo = <<>>
    /\ Finish(Cleanup(Flush(CurFrame)))

\* variant of HandlerAtOpen: the reset comes before Document(path)
HandlerAtOpenResetFirst(doc) == Seed(None)

\* parse_docx, lines 111-115: the handler after Document(path) and the
\* reset that follows it; Document(path) raises for an unreadable file
\* before the handler is touched
HandlerAtOpen(doc) ==
    IF doc.readable THEN Seed(None) ELSE CurFrame

\* parse_docx, lines 111-122
ParseDocxStart(doc) ==
    /\ pc = "idle"
    /\ input' = [kind |-> "docx", doc |-> doc]
    /\ pre' = [secs |-> Model, order |-> detected_order, obj |-> sections]
    /\ LET f == HandlerAtOpen(doc)
       IN  /\ detected_order' = f.order
           /\ current_section' = f.cur
           /\ last_text' = f.last
           /\ IF doc.readable
              THEN /\ sections' = SeedObj
                   /\ heap' = Rebind(SeedObj, f.secs)
                   /\ image_map' = ExtractAllImages(doc.rels, <<>>)
                   /\ todo' = doc.body
                   /\ pc' = "parse_docx"
                   /\ error' = "none"
              ELSE /\ heap' = [heap EXCEPT ![sections] = f.secs]
                   /\ pc' = "raised"
                   /\ error' = "InputReadError"
                   /\ UNCHANGED <<sections, image_map, todo>>
    /\ used' = TRUE
    /\ UNCHANGED <<buffer, held, held_value, prev, call>>

\* parse_docx, one iteration of the loop of lines 125-168
DocxBlock ==
    /\ pc = "parse_docx"
    /\ todo # <<>>
    /\ IF BlockRaises(Head(todo))
       THEN /\ pc' = "raised"
            /\ error' = "ElementError"
            /\ UNCHANGED <<heap, detected_order, current_section, last_text, todo>>
       ELSE LET f == DocxBlockStep(CurFrame, Head(todo), image_map)
            IN  /\ heap' = [heap EXCEPT ![sections] = f.secs]
                /\ detected_order' = f.order
                /\ current_section' = f.cur
                /\ last_text' = f.last
                /\ todo' = Tail(todo)
                /\ UNCHANGED <<pc, error>>
    /\ UNCHANGED <<sections, input, buffer, image_map, pre, held, held_value, prev, used, call>>

\* parse_docx, line 170
ParseDocxEnd ==
    /\ pc = "parse_docx"
    /\ todo = <<>>
    /\ Finish(Cleanup(CurFrame))

\* return self.sections: the caller now holds the dict object
Return ==
    /\ pc = "return"
    /\ pc' = "idle"
    /\ held' = sections
    /\ held_value' = Model
    /\ prev' = [input |-> input, order |-> detected_order]
    /\ heap' = [o \in ObjIds |-> IF o = sections THEN heap[o] ELSE <<>>]
    /\ input' = NoInput
    /\ pre' = NoPre
    /\ todo' = <<>>
    /\ current_section' = <<>>
    /\ buffer' = <<>>
    /\ image_map' = <<>>
    /\ UNCHANGED <<sections, detected_order, last_text, error, used, call>>

\* the exception leaves parse_docx and is handled by the caller, which keeps
\* the handler and lets go of the model it held
Catch ==
    /\ pc = "raised"
    /\ pc' = "idle"
    /\ input' = NoInput
    /\ pre' = NoPre
    /\ todo' = <<>>
    /\ current_section' = <<>>
    /\ buffer' = <<>>
    /\ image_map' = <<>>
    /\ error' = "none"
    /\ held' = NoObj
    /\ held_value' = <<>>
    /\ prev' = NoPrev
    /\ heap' = [o \in ObjIds |-> IF o = sections THEN heap[o] ELSE <<>>]
    /\ UNCHANGED <<sections, detected_order, last_text, used, call>>

Next ==
    \/ Construct
    \/ \E text \in TextChoices : ParseTextStart(text)
    \/ TextLine
    \/ ParseTextEnd
    \/ \E doc \in DocChoices : ParseDocxStart(doc)
    \/ DocxBlock
    \/ ParseDocxEnd
    \/ Return
    \/ Catch

Spec == Init /\ [][Next]_vars

\* ------------------------------------------------------------------------
\* import_pdf
\* ------------------------------------------------------------------------
\* sep.join(parts)
RECURSIVE Join(_, _)
Join(parts, sep) ==
    IF parts = <<>> THEN <<>>
    ELSE IF Len(parts) = 1 THEN parts[1]
    ELSE parts[1] \o sep \o Join(Tail(parts), sep)

\* s.split("\n")
RECURSIVE SplitNewline(_)
SplitNewline(s) ==
    IF \E i \in 1..Len(s) : s[i] = "\n"
    THEN LET n == CHOOSE i \in 1..Len(s) : s[i] = "\n" /\ \A j \in 1..(i - 1) : s[j] # "\n"
         IN  <<SubSeq(s, 1, n - 1)>> \o SplitNewline(Drop(s, n))
    ELSE <<s>>

\* a page as pdfplumber gives it: extract_text() (None without text), the
\* tables of extract_tables(), which raises when tables_fail, and page.images
PdfPage(text, tables, images, tables_fail) ==
    [text |-> text, tables |-> tables, images |-> images, tables_fail |-> tables_fail]

\* an entry of page.images; cropping or saving it raises unless ok
PdfImage(xref, ok) == [xref |-> xref, ok |-> ok]

\* os.path.join(img_dir, f"pdf_img_page{page_index}_xref{im['xref']}.png")
PdfOutPath(page_index, xref) == <<"docmaster_pdf_images", page_index, xref>>

\* an entry of tables_with_section or images_with_section
Recorded(sec, el) == [sec |-> sec, el |-> el]

\* the loop over the lines of one page, lines 143-158
RECURSIVE ScanLines(_, _, _)
ScanLines(lines, last_section, acc) ==
    IF lines = <<>> THEN acc
    ELSE LET stripped == Strip(Head(lines))
             heading == DetectHeading(stripped)
             page_section == IF Truthy(heading) THEN heading ELSE acc.page_section
             virt == DetectVirtualImage(stripped)
         IN  IF stripped = <<>> THEN ScanLines(Tail(lines), last_section, acc)
             ELSE ScanLines(Tail(lines), last_section,
                    [page_section |-> page_section,
                     images |-> IF virt # NoElement
                                THEN Append(acc.images, Recorded(IF page_section = None THEN last_section ELSE page_section, virt))
                                ELSE acc.images,
                     cleaned |-> Append(acc.cleaned, stripped)])

\* one iteration of the loop over pdf.pages, lines 137-202
ScanPage(page, page_index, st) ==
    LET none == [page_section |-> None, images |-> <<>>, cleaned |-> <<>>]
        r == IF Truthy(page.text) THEN ScanLines(SplitNewline(page.text), st.last_section, none) ELSE none
        last_section == IF Truthy(r.page_section) THEN r.page_section ELSE st.last_section
        saved == SelectSeq(page.images, LAMBDA im : im.ok)
    IN  [last_section |-> last_section,
         page_texts |-> Append(st.page_texts, Strip(Join(r.cleaned, <<"\n">>))),
         tables |-> st.tables \o (IF page.tables_fail THEN <<>>
                                  ELSE [j \in 1..Len(page.tables) |-> Recorded(last_section, TableEl(page.tables[j]))]),
         images |-> st.images \o r.images
                    \o [j \in 1..Len(saved) |-> Recorded(last_section, ImageEl(PdfOutPath(page_index, saved[j].xref), None, <<>>, FALSE))]]

RECURSIVE ScanPages(_, _, _)
ScanPages(pages, page_index, st) ==
    IF pages = <<>> THEN st
    ELSE ScanPages(Tail(pages), page_index + 1, ScanPage(Head(pages), page_index, st))

\* lines 125-202: what the pages give
Scan(pdf) ==
    ScanPages(pdf.pages, 0, [last_section |-> Uncategorized, page_texts |-> <<>>, tables |-> <<>>, images |-> <<>>])

\* line 204
RawText(page_texts) == Strip(Join(SelectSeq(page_texts, LAMBDA t : t # <<>>), <<"\n", "\n">>))

\* variant of Target: the fallback is the first section of the order
TargetFirst(secs, order, sec_name) == IF Has(secs, sec_name) THEN sec_name ELSE order[1]

\* the section an extracted table or image is appended to, lines 216 and 223
Target(secs, order, sec_name) == IF Has(secs, sec_name) THEN sec_name ELSE order[Len(order)]

\* order[-1] of an empty list raises IndexError
TargetRaises(secs, order, sec_name) == ~Has(secs, sec_name) /\ order = <<>>

MaxPages == 2

GridA == << <<<<"a">>, <<"b", " ">>>>, <<<<"c">>>> >>

GridB == << <<<<"d">>>> >>

PageChoices ==
    {PdfPage(<<"A", "b", "s", "t", "r", "a", "c", "t">>, <<GridA>>, <<>>, FALSE),
     PdfPage(<<"w", "\n", "A", "b", "s", "t", "r", "a", "c", "t", "\n", "x">>, <<>>, <<PdfImage(7, TRUE)>>, FALSE),
     PdfPage(<<"x", "\n", "F", "i", "g", "u", "r", "e", " ", "1", " ", "s", "h", "o", "w", "s", " ", "y">>, <<GridA>>, <<>>, FALSE),
     PdfPage(None, <<>>, <<PdfImage(3, TRUE), PdfImage(4, FALSE)>>, FALSE),
     PdfPage(<<"2", ")", " ", "m", "e", "t", "h", "o", "d", "s", "\n", " ", "\n", "y", " ", " ">>, <<GridA, GridB>>, <<>>, FALSE),
     PdfPage(<<"R", "e", "s", "u", "l", "t", "s">>, <<GridA>>, <<PdfImage(5, TRUE)>>, TRUE),
     PdfPage(<<" ", " ", "\n">>, <<>>, <<>>, FALSE)}

Pdf(readable, pages) == [readable |-> readable, pages |-> pages]

\* the files behind the path chosen in the file dialog
Pdfs == {Pdf(TRUE, pages) : pages \in BoundedSeqs(PageChoices, MaxPages)} \cup {Pdf(FALSE, <<>>)}

\* import_pdf up to line 211: the pages are scanned, and with readable text
\* a new handler parses it
ImportPdfStart(pdf) ==
    /\ pc = "idle"
    /\ input' = [kind |-> "pdf", pdf |-> pdf]
    /\ used' = TRUE
    /\ IF ~pdf.readable
       THEN /\ pc' = "raised"
            /\ error' = "InputReadError"
            /\ UNCHANGED <<heap, sections, detected_order, last_text, todo>>
       ELSE \E scan \in {Scan(pdf)} : \E raw_text \in {RawText(scan.page_texts)} :
            IF raw_text = <<>>
            THEN /\ pc' = "warned"
                 /\ UNCHANGED <<heap, sections, detected_order, last_text, todo, error>>
            ELSE \E f \in {ParseText(raw_text, None)} :
                 /\ sections' = 0
                 /\ heap' = [o \in ObjIds |-> IF o = 0 THEN f.secs ELSE <<>>]
                 /\ detected_order' = f.order
                 /\ last_text' = f.last
                 /\ todo' = scan.tables \o scan.images
                 /\ pc' = "attach"
                 /\ UNCHANGED error
    /\ UNCHANGED <<current_section, buffer, image_map, pre, held, held_value, prev, call>>

\* one iteration of the loops of lines 215-234
Attach ==
    /\ pc = "attach"
    /\ todo # <<>>
    /\ IF TargetRaises(Model, detected_order, Head(todo).sec)
       THEN /\ pc' = "raised"
            /\ error' = "IndexError"
            /\ UNCHANGED <<heap, todo>>
       ELSE /\ heap' = [heap EXCEPT ![sections] = AppendTo(@, Target(Model, detected_order, Head(todo).sec), Head(todo).el)]
            /\ todo' = Tail(todo)
            /\ UNCHANGED <<pc, error>>
    /\ UNCHANGED <<sections, detected_order, last_text, input, current_section, buffer, image_map, pre, held, held_value, prev, used, call>>

\* lines 242-244: the import is complete
ImportPdfEnd ==
    /\ pc = "attach"
    /\ todo = <<>>
    /\ pc' = "imported"
    /\ UNCHANGED <<heap, sections, detected_order, last_text, error, input, todo, current_section, buffer, image_map, pre, held, held_value, prev, used, call>>

\* lines 246-247: the handler of import_pdf shows the error
ImportPdfCatch ==
    /\ pc = "raised"
    /\ pc' = "failed"
    /\ UNCHANGED <<heap, sections, detected_order, last_text, error, input, todo, current_section, buffer, image_map, pre, held, held_value, prev, used, call>>

NextPdf ==
    \/ \E pdf \in Pdfs : ImportPdfStart(pdf)
    \/ Attach
    \/ ImportPdfEnd
    \/ ImportPdfCatch

SpecPdf == Init /\ [][NextPdf]_vars

\* ------------------------------------------------------------------------
\* Calls of the helpers
\* ------------------------------------------------------------------------
\* numbering prefixes and line bodies of the lines given to _detect_heading
HeadingPrefixes == {<<>>, <<"1", ".", " ">>, <<"2", ")", " ">>, <<"1", "2", ".">>, <<" ", "3", ")", " ", " ">>}

HeadingBodies ==
    {<<"A", "b", "s", "t", "r", "a", "c", "t">>,
     <<"I", "n", "t", "r", "o", "d", "u", "c", "t", "i", "o", "n">>,
     <<"i", "n", "t", "r", "o", "d", "u", "c", "t", "i", "o", "n">>,
     <<"L", "I", "T", "E", "R", "A", "T", "U", "R", "E", " ", " ", "R", "e", "v", "i", "e", "w">>,
     <<"m", "a", "t", "e", "r", "i", "a", "l", "s", " ", "a", "n", "d", " ", "m", "e", "t", "h", "o", "d", "s">>,
     <<"M", "e", "t", "h", "o", "d", "o", "l", "o", "g", "y">>,
     <<"w", "o", "r", "k", "s", "\t", "c", "i", "t", "e", "d">>,
     <<"T", "h", "e", " ", "i", "n", "t", "r", "o", "d", "u", "c", "t", "i", "o", "n", " ", "o", "f", " ", "n", "e", "w", " ", "m", "e", "t", "h", "o", "d", "s">>,
     <<"A", "b", "s", "t", "r", "a", "c", "t", ":">>,
     <<"r", "e", "s", "u", "l", "t", "s", " ", "a", "n", "d", " ", "d", "i", "s", "c", "u", "s", "s", "i", "o", "n">>,
     <<"x">>,
     <<>>,
     <<"I", "n", "t", "r", "o", "d", "u", "c", "t", "i", "o", "n", " ", "2">>}

HeadingLines == {a \o b : a \in HeadingPrefixes, b \in HeadingBodies}

\* lines given to _detect_caption as previous and as current; None is the
\* initial _last_text
CaptionLines ==
    {None,
     <<"F", "i", "g", "u", "r", "e", " ", "1", ":", " ", "S", "a", "m", "p", "l", "e", " ", "o", "u", "t", "p", "u", "t">>,
     <<"F", "i", "g", ".", " ", "2", " ", "-", " ", "G", "r", "o", "w", "t", "h", " ", "c", "h", "a", "r", "t">>,
     <<"f", "i", "g", " ", "3", ")", " ", "x">>,
     <<"F", "I", "G", "U", "R", "E", "1", "2", ".", " ", "y">>,
     <<"F", "i", "g", "u", "r", "e", " ", "4", ":">>,
     <<"F", "i", "g", " ", "5", " ", "-", " ", "z">>,
     <<"u", "n", "r", "e", "l", "a", "t", "e", "d", " ", "t", "e", "x", "t">>,
     <<"s", "e", "e", " ", "F", "i", "g", "u", "r", "e", " ", "1", ":", " ", "x">>,
     <<>>}

\* texts given to predict_section
PredictTexts ==
    {<<"I", "n", "t", "r", "o", "d", "u", "c", "t", "i", "o", "n">>,
     <<"[", "7", "]", " ", "x">>,
     <<"h", "t", "t", "p", ":", "/", "/", "a", ".", "b">>,
     <<"[", "7", "]", " ", "S", "m", "i", "t", "h", " ", "e", "t", " ", "a", "l", ".", ",", " ", "2", "0", "2", "0", ",", " ", "h", "t", "t", "p", "s", ":", "/", "/", "d", "o", "i", ".", "o", "r", "g", "/", "1", "0", ".", "1", "/", "x">>,
     <<"[", "1", "2", "]", " ", "A", ".", " ", "A", "u", "t", "h", "o", "r", ",", " ", "S", "o", "m", "e", " ", "T", "i", "t", "l", "e", ",", " ", "2", "0", "1", "9">>,
     <<"T", "h", "a", "n", "k", "s", ",", " ", "s", "e", "e", " ", "h", "t", "t", "p", "s", ":", "/", "/", "e", "x", "a", "m", "p", "l", "e", ".", "o", "r", "g", "/", "a", "c", "k", "n", "o", "w", "l", "e", "d", "g", "e", "m", "e", "n", "t">>,
     <<"W", "e", " ", "a", "c", "k", "n", "o", "w", "l", "e", "d", "g", "e", " ", "t", "h", "e", " ", "s", "u", "p", "p", "o", "r", "t", " ", "o", "f", " ", "o", "u", "r", " ", "l", "a", "b">>,
     <<" ", " ", "a", " ", "d", "e", "c", "l", "a", "r", "a", "t", "i", "o", "n", " ", " ", "\t", " ", " ", " ", " ", " ", " ">>,
     <<"T", "h", "i", "s", " ", "p", "a", "p", "e", "r", " ", "s", "t", "u", "d", "i", "e", "s", " ", "t", "h", "e", " ", "e", "f", "f", "e", "c", "t", " ", "o", "f", " ", "X">>,
     <<"s", "e", "e", " ", "[", "1", "2", "]", " ", "f", "o", "r", " ", "t", "h", "e", " ", "d", "e", "t", "a", "i", "l", "s", " ", "o", "f", " ", "i", "t">>,
     <<"a", "a", "a", "a", "a", "a", "a", "a", "a", "a", "a", "a", "a", "a", "a", "a", "a", "a", "a">>,
     <<"a", "a", "a", "a", "a", "a", "a", "a", "a", "a", "a", "a", "a", "a", "a", "a", "a", "a", "a", "a">>,
     <<"[", "x", "]", " ", "i", "s", " ", "n", "o", "t", " ", "a", " ", "n", "u", "m", "b", "e", "r", "e", "d", " ", "r", "e", "f", "e", "r", "e", "n", "c", "e">>,
     <<"A", " ", "S", "u", "p", "e", "r", "v", "i", "s", "o", "r", " ", "C", "e", "r", "t", "i", "f", "i", "c", "a", "t", "e", " ", "i", "s", " ", "a", "t", "t", "a", "c", "h", "e", "d">>,
     <<>>}

\* labels of the trained classifier
Labels == {<<"A", "B", "S", "T", "R", "A", "C", "T">>, <<"M", "E", "T", "H", "O", "D", "O", "L", "O", "G", "Y">>, <<"R", "E", "F", "E", "R", "E", "N", "C", "E", "S">>}

\* lines given to detect_virtual_image
VirtualLines ==
    {<<"F", "i", "g", "u", "r", "e", " ", "1", " ", "s", "h", "o", "w", "s", " ", "x">>,
     <<"s", "e", "e", " ", "F", "I", "G", ".", " ", "2">>,
     <<"f", "i", "g", " ", "3">>,
     <<"G", "r", "a", "p", "h", "s", " ", "o", "f", " ", "y">>,
     <<"a", " ", "b", "a", "r", " ", "c", "h", "a", "r", "t">>,
     <<"P", "l", "o", "t", "t", "i", "n", "g", " ", "z">>,
     <<"b", "l", "o", "c", "k", " ", "d", "i", "a", "g", "r", "a", "m">>,
     <<"x", " ", "y">>,
     <<>>,
     <<"c", "o", "n", "f", "i", "g", "u", "r", "e", " ", "i", "t">>}

\* texts given to the classifier-assisted parse_text
HybridTexts ==
    {<<"A", "b", "s", "t", "r", "a", "c", "t", "\n", "T", "h", "i", "s", " ", "p", "a", "p", "e", "r", " ", "s", "t", "u", "d", "i", "e", "s", " ", "t", "h", "e", " ", "e", "f", "f", "e", "c", "t", " ", "o", "f", " ", "X">>,
     <<"A", "b", "s", "t", "r", "a", "c", "t", "\n", "s", "h", "o", "r", "t">>,
     <<"T", "h", "i", "s", " ", "p", "a", "p", "e", "r", " ", "s", "t", "u", "d", "i", "e", "s", " ", "t", "h", "e", " ", "e", "f", "f", "e", "c", "t", " ", "o", "f", " ", "X", "\n", "\n", "[", "7", "]", " ", "S", "m", "i", "t", "h", " ", "e", "t", " ", "a", "l", ".", ",", " ", "2", "0", "2", "0", ",", " ", "h", "t", "t", "p", "s", ":", "/", "/", "d", "o", "i", ".", "o", "r", "g", "/", "1", "0", ".", "1", "/", "x">>,
     <<"I", "n", "t", "r", "o", "d", "u", "c", "t", "i", "o", "n", "\n", "W", "e", " ", "a", "c", "k", "n", "o", "w", "l", "e", "d", "g", "e", " ", "t", "h", "e", " ", "s", "u", "p", "p", "o", "r", "t", " ", "o", "f", " ", "o", "u", "r", " ", "l", "a", "b", "\n", "\n", "M", "e", "t", "h", "o", "d", "s", "\n", "s", "e", "e", " ", "[", "1", "2", "]", " ", "f", "o", "r", " ", "t", "h", "e", "\n", "d", "e", "t", "a", "i", "l", "s", " ", "o", "f", " ", "i", "t">>}

Pending(fn, args) == [fn |-> fn, args |-> args, status |-> "pending", result |-> <<>>]

PendingCalls ==
    {Pending("_detect_heading", <<l>>) : l \in HeadingLines}
    \cup {Pending("_detect_caption", <<a, b>>) : a \in CaptionLines, b \in CaptionLines}
    \cup {Pending("predict_section", <<t, l, <<a>> >>) : t \in PredictTexts, l \in Labels, a \in BOOLEAN}
    \cup {Pending("detect_virtual_image", <<l>>) : l \in VirtualLines}
    \cup {Pending("hybrid parse_text", <<t, l>>) : t \in HybridTexts, l \in Labels}

\* a new handler and one helper call to make
InitCalls ==
    /\ heap = [o \in ObjIds |-> <<>>]
    /\ sections = 0
    /\ detected_order = <<>>
    /\ last_text = None
    /\ pc = "idle"
    /\ error = "none"
    /\ input = NoInput
    /\ todo = <<>>
    /\ current_section = <<>>
    /\ buffer = <<>>
    /\ image_map = <<>>
    /\ pre = NoPre
    /\ held = NoObj
    /\ held_value = <<>>
    /\ prev = NoPrev
    /\ used = FALSE
    /\ call \in PendingCalls

HandlerVars == <<heap, sections, detected_order, last_text, pc, error, input, todo,
                 current_section, buffer, image_map, pre, held, held_value, prev, used>>

Returns(value) == [call EXCEPT !.status = "returned", !.result = value]

DetectHeadingCall ==
    /\ call.fn = "_detect_heading"
    /\ call.status = "pending"
    /\ call' = Returns(DetectHeading(call.args[1]))
    /\ UNCHANGED HandlerVars

DetectCaptionCall ==
    /\ call.fn = "_detect_caption"
    /\ call.status = "pending"
    /\ call' = Returns(DetectCaption(call.args[1], call.args[2]))
    /\ UNCHANGED HandlerVars

PredictSectionCall ==
    /\ call.fn = "predict_section"
    /\ call.status = "pending"
    /\ call' = IF PredictSectionRaises(call.args[1], call.args[3][1])
               THEN [call EXCEPT !.status = "raised"]
               ELSE Returns(PredictSection(call.args[1], call.args[2]))
    /\ UNCHANGED HandlerVars

DetectVirtualImageCall ==
    /\ call.fn = "detect_virtual_image"
    /\ call.status = "pending"
    /\ call' = Returns(DetectVirtualImage(call.args[1]))
    /\ UNCHANGED HandlerVars

HybridParseTextCall ==
    /\ call.fn = "hybrid parse_text"
    /\ call.status = "pending"
    /\ call' = Returns([secs |-> HybridParseText(call.args[1], call.args[2]).secs,
                        order |-> HybridParseText(call.args[1], call.args[2]).order])
    /\ UNCHANGED HandlerVars

NextCalls ==
    \/ DetectHeadingCall
    \/ DetectCaptionCall
    \/ PredictSectionCall
    \/ DetectVirtualImageCall
    \/ HybridParseTextCall

SpecCalls == InitCalls /\ [][NextCalls]_vars

\* ------------------------------------------------------------------------
\* The source read position by position
\* ------------------------------------------------------------------------
\* What a finished parse is compared with: the units of the input (lines of
\* a text, body blocks of a document), the heading each unit carries and the
\* elements each unit contributes, stated by position and not by a walk.
Max(S) == CHOOSE m \in S : \A n \in S : n <= m

Min(S) == CHOOSE m \in S : \A n \in S : m <= n

Units(inp) == IF inp.kind = "text" THEN SplitLines(inp.text) ELSE inp.doc.body

UnitText(inp, i) ==
    IF inp.kind = "text" THEN Strip(Units(inp)[i])
    ELSE IF Units(inp)[i].type = "p" THEN Strip(Units(inp)[i].text)
    ELSE <<>>

UnitHeading(inp, i) == IF UnitText(inp, i) = <<>> THEN None ELSE DetectHeading(UnitText(inp, i))

IsHeadingUnit(inp, i) == Truthy(UnitHeading(inp, i))

\* the section a unit lies in: named by the nearest heading at or before it
SectionAtUnit(inp, i) ==
    LET js == {j \in 1..i : IsHeadingUnit(inp, j)}
    IN  IF js = {} THEN Uncategorized ELSE UnitHeading(inp, Max(js))

\* a line of body text
IsBodyLine(inp, i) == UnitText(inp, i) # <<>> /\ ~IsHeadingUnit(inp, i)

\* the maximal run of body lines that ends at line i
RunStart(inp, i) == Min({k \in 1..i : \A j \in k..i : IsBodyLine(inp, j)})

RunText(inp, i) ==
    LET k == RunStart(inp, i)
    IN  JoinSpace([j \in 1..(i - k + 1) |-> UnitText(inp, k + j - 1)])

EndsRun(inp, i) ==
    /\ IsBodyLine(inp, i)
    /\ i = Len(Units(inp)) \/ ~IsBodyLine(inp, i + 1)

\* text of the paragraph nearest before block i, None when there is none
PrevParagraphText(inp, i) ==
    LET js == {j \in 1..(i - 1) : Units(inp)[j].type = "p"}
    IN  IF js = {} THEN None ELSE UnitText(inp, Max(js))

\* where the image behind a relationship id was saved, None when it was not
SavedPath(doc, rId) ==
    IF \E r \in 1..Len(doc.rels) : doc.rels[r].rId = rId /\ doc.rels[r].is_image /\ doc.rels[r].ok
    THEN OutPath(doc.rels[CHOOSE r \in 1..Len(doc.rels) : doc.rels[r].rId = rId].partname)
    ELSE None

UnitElements(inp, i) ==
    IF inp.kind = "text"
    THEN IF EndsRun(inp, i) THEN <<TextEl(RunText(inp, i))>> ELSE <<>>
    ELSE LET b == Units(inp)[i]
         IN  IF b.type = "tbl"
             THEN <<TableEl([r \in 1..Len(b.rows) |-> [c \in 1..Len(b.rows[r]) |-> Strip(b.rows[r][c])]])>>
             ELSE IF b.type # "p" \/ IsHeadingUnit(inp, i) THEN <<>>
             ELSE IF b.embeds # <<>>
             THEN [j \in 1..Len(b.embeds) |->
                     ImageEl(SavedPath(inp.doc, b.embeds[j].rId),
                             DetectCaption(PrevParagraphText(inp, i), UnitText(inp, i)), <<>>, FALSE)]
             ELSE IF UnitText(inp, i) # <<>> THEN <<TextEl(UnitText(inp, i))>>
             ELSE <<>>

\* the elements of the units 1..n that lie in section name, in source order
RECURSIVE SourceElements(_, _, _)
SourceElements(inp, name, n) ==
    IF n = 0 THEN <<>>
    ELSE SourceElements(inp, name, n - 1)
         \o (IF SectionAtUnit(inp, n) = name THEN UnitElements(inp, n) ELSE <<>>)

\* position at which a section is first encountered; the seeded
\* "Uncategorized" comes before every unit
FirstSeen(inp, name) ==
    IF name = Uncategorized THEN 0
    ELSE Min({j \in 1..Len(Units(inp)) : UnitHeading(inp, j) = name})

\* a heading with no text, table or image before the next heading or the end
EmptyHeading(inp, i) ==
    /\ IsHeadingUnit(inp, i)
    /\ \A j \in (i + 1)..Len(Units(inp)) :
          (\A k \in (i + 1)..j : ~IsHeadingUnit(inp, k)) => UnitElements(inp, j) = <<>>

NoDuplicates(s) == \A i, j \in 1..Len(s) : i # j => s[i] # s[j]

Finished == pc = "return"

\* ------------------------------------------------------------------------
\* Properties
\* ------------------------------------------------------------------------
\* C1: at every step of parse_text and parse_docx, detected_order has no
\* duplicate and holds exactly the keys of sections; after the final
\* _cleanup every name of detected_order maps to a non-empty element list.
OrderIsKeysOfSections ==
    pc \in {"parse_text", "parse_docx", "return"} =>
        /\ NoDuplicates(detected_order)
        /\ NoDuplicates(KeyList(Model))
        /\ Range(detected_order) = Keys(Model)
        /\ Finished => \A i \in 1..Len(detected_order) : Get(Model, detected_order[i]) # <<>>

\* witness of C1: a finished parse that kept two sections and pruned the
\* seeded one
OrderIsKeysWitness ==
    /\ Finished
    /\ Len(detected_order) >= 2
    /\ Uncategorized \notin Range(detected_order)

\* C2: the final detected_order lists the sections in the order they were
\* first encountered in the source, and the elements of each section are
\* the elements of the source that lie in it, in source order.
SourceOrderKept ==
    Finished =>
        /\ \A i, j \in 1..Len(detected_order) :
              i < j => FirstSeen(input, detected_order[i]) < FirstSeen(input, detected_order[j])
        /\ \A i \in 1..Len(Model) :
              Model[i].v = SourceElements(input, Model[i].k, Len(Units(input)))

\* witness of C2: two sections, one of them with elements of two kinds
SourceOrderWitness ==
    /\ Finished
    /\ Len(detected_order) >= 2
    /\ \E i \in 1..Len(Model) : Len(Model[i].v) >= 2 /\ Model[i].v[1].type # Model[i].v[2].type

\* C3 as claimed: the name of every heading without content is absent from
\* the final detected_order.
EmptyHeadingAbsent ==
    Finished =>
        \A i \in 1..Len(Units(input)) :
            EmptyHeading(input, i) => UnitHeading(input, i) \notin Range(detected_order)

\* C3 amended: the name of a heading without content is absent from the
\* final detected_order unless another heading of the same name has content.
EmptyHeadingAbsentUnlessRepeated ==
    Finished =>
        \A i \in 1..Len(Units(input)) :
            (/\ EmptyHeading(input, i)
             /\ \A j \in 1..Len(Units(input)) :
                   UnitHeading(input, j) = UnitHeading(input, i) => EmptyHeading(input, j))
            => UnitHeading(input, i) \notin Range(detected_order)

\* witness of C3: a heading without content was pruned while another section
\* was kept
EmptyHeadingWitness ==
    /\ Finished
    /\ detected_order # <<>>
    /\ \E i \in 1..Len(Units(input)) :
          /\ EmptyHeading(input, i)
          /\ UnitHeading(input, i) \notin Range(detected_order)

\* C4: when a parse stops with an error, the model the handler shows is not
\* a partly built, unpruned model of the failed document: the handler shows
\* what it showed before the call.
NoPartialModelAfterError ==
    pc = "raised" => Model = pre.secs /\ detected_order = pre.order

\* C5: an unreadable document makes parse_docx raise with the handler's
\* sections and detected_order exactly as they were before the call, and
\* nothing is walked or returned.
ReadErrorLeavesHandler ==
    (pc = "raised" /\ ~input.doc.readable) =>
        /\ error = "InputReadError"
        /\ sections = pre.obj
        /\ Model = pre.secs
        /\ detected_order = pre.order
        /\ todo = <<>>

\* witness of C5: the read error hit a handler that held a model
ReadErrorWitness ==
    /\ pc = "raised"
    /\ error = "InputReadError"
    /\ Len(pre.secs) >= 1
    /\ pre.order # <<>>

\* a document whose images are all extracted
AllOk(doc) == [doc EXCEPT !.rels = [r \in 1..Len(doc.rels) |-> [doc.rels[r] EXCEPT !.ok = TRUE]]]

FailedPaths(doc) ==
    {OutPath(doc.rels[r].partname) : r \in {q \in 1..Len(doc.rels) : doc.rels[q].is_image /\ ~doc.rels[q].ok}}

\* the model with path None in every image whose file is among paths
WithoutPaths(d, paths) ==
    [i \in 1..Len(d) |->
        [k |-> d[i].k,
         v |-> [j \in 1..Len(d[i].v) |->
                   IF d[i].v[j].type = "image" /\ d[i].v[j].path \in paths
                   THEN [d[i].v[j] EXCEPT !.path = None]
                   ELSE d[i].v[j]]]]

\* the set of all elements of a model
Elements(d) == UNION {Range(d[i].v) : i \in 1..Len(d)}

RECURSIVE CountElements(_)
CountElements(d) == IF d = <<>> THEN 0 ELSE Len(Head(d).v) + CountElements(Tail(d))

\* C6: a failed image extraction does not stop parse_docx; the finished
\* model is the model of the same document with every image extracted,
\* except that the images whose extraction failed have path None.
ExtractionFailureIsLocal ==
    /\ (pc = "raised" /\ input.doc.readable) => WalkRaises(input.doc.body)
    /\ (Finished /\ input.kind = "docx") =>
          LET ok == ParseDocx(AllOk(input.doc))
          IN  /\ detected_order = ok.order
              /\ Model = WithoutPaths(ok.secs, FailedPaths(input.doc))

\* witness of C6: a finished parse with one image that lost its path and one
\* that kept it
ExtractionFailureWitness ==
    /\ Finished
    /\ input.kind = "docx"
    /\ FailedPaths(input.doc) # {}
    /\ \E e \in Elements(Model) : e.type = "image" /\ e.path = None
    /\ \E e \in Elements(Model) : e.type = "image" /\ e.path # None
    /\ \E e \in Elements(Model) : e.type = "table"

\* C7: a failure on one table or one image paragraph never stops the parse:
\* parse_docx raises only when the document cannot be read.
LocalFailureNeverAborts ==
    pc = "raised" => error = "InputReadError"

\* C8: the same input parsed twice on one handler gives the same sections
\* and the same detected_order.
SameInputSameModel ==
    (Finished /\ prev.input = input) =>
        /\ Model = held_value
        /\ detected_order = prev.order

\* witness of C8: the second parse of an input with content has finished
SameInputWitness ==
    /\ Finished
    /\ prev.input = input
    /\ Len(detected_order) >= 2

\* C9: whatever the handler parsed before, a finished parse shows the model
\* a new handler builds for the input, and the dict returned by the earlier
\* call is never changed.
ParsesAreIndependent ==
    /\ held # NoObj => heap[held] = held_value
    /\ Finished =>
          LET fresh == IF input.kind = "text" THEN ParseText(input.text, None) ELSE ParseDocx(input.doc)
          IN  /\ Model = fresh.secs
              /\ detected_order = fresh.order
              /\ buffer = <<>>
              /\ input.kind = "docx" => last_text = fresh.last

\* witness of C9: a parse finished on a handler whose earlier model, still
\* held by the caller, was a different one
IndependentWitness ==
    /\ Finished
    /\ held # NoObj
    /\ held # sections
    /\ held_value # <<>>
    /\ Model # <<>>
    /\ Model # held_value

\* C10: in parse_text every maximal run of body lines becomes exactly one
\* Text element, the stripped lines joined by single spaces, in the section
\* current during the run; nothing else is added and no run is lost.
RunsBecomeTextElements ==
    (Finished /\ input.kind = "text") =>
        /\ \A i \in 1..Len(Units(input)) :
              EndsRun(input, i) =>
                  /\ Has(Model, SectionAtUnit(input, i))
                  /\ \E j \in 1..Len(Get(Model, SectionAtUnit(input, i))) :
                        Get(Model, SectionAtUnit(input, i))[j] = TextEl(RunText(input, i))
        /\ CountElements(Model) = Cardinality({i \in 1..Len(Units(input)) : EndsRun(input, i)})
        /\ input.text = EndToEnd =>
              /\ detected_order = <<<<"A", "b", "s", "t", "r", "a", "c", "t">>, <<"I", "n", "t", "r", "o", "d", "u", "c", "t", "i", "o", "n">>>>
              /\ Model = << [k |-> <<"A", "b", "s", "t", "r", "a", "c", "t">>, v |-> <<TextEl(<<"T", "h", "i", "s", " ", "p", "a", "p", "e", "r", " ", "s", "t", "u", "d", "i", "e", "s", " ", "X", ".">>)>>],
                            [k |-> <<"I", "n", "t", "r", "o", "d", "u", "c", "t", "i", "o", "n">>, v |-> <<TextEl(<<"W", "e", " ", "b", "e", "g", "i", "n", " ", "w", "i", "t", "h", " ", "Y", ".">>)>>] >>

\* witness of C10: a finished text parse with a run of several lines and a
\* last run that no blank line ends
RunsWitness ==
    /\ Finished
    /\ input.kind = "text"
    /\ Units(input) # <<>>
    /\ EndsRun(input, Len(Units(input)))
    /\ \E i \in 1..Len(Units(input)) : EndsRun(input, i) /\ RunStart(input, i) < i

\* C11: an empty or whitespace-only text gives a model with no section and
\* an empty detected_order.
BlankTextGivesEmptyModel ==
    (Finished /\ input.kind = "text" /\ \A i \in 1..Len(input.text) : IsSpace(input.text[i])) =>
        /\ Model = <<>>
        /\ detected_order = <<>>

\* witness of C11: the parse of a text of blanks, tabs and line ends finished
BlankTextWitness ==
    /\ Finished
    /\ input.kind = "text"
    /\ Len(input.text) >= 2
    /\ \A i \in 1..Len(input.text) : IsSpace(input.text[i])
    /\ \E i \in 1..Len(input.text) : input.text[i] = "\n"

\* the helper call that has returned
Returned(fn) == call.fn = fn /\ call.status = "returned"

\* length of the numbering <digits><. or )> a stripped line starts with
NumberingLen(s) ==
    IF SpanDigits(s) >= 1 /\ Len(s) > SpanDigits(s) /\ s[SpanDigits(s) + 1] \in {".", ")"}
    THEN SpanDigits(s) + 1
    ELSE 0

\* the line without one leading numbering
Unnumbered(line) == Strip(Drop(Strip(line), NumberingLen(Strip(line))))

\* the line, its numbering removed, is a recognized heading as a whole
WholeLineHeading(line) == \E i \in 1..Len(SECTION_PATTERNS) : Words(Lower(Unnumbered(line))) = SECTION_PATTERNS[i]

\* C12: for a line that is a recognized heading once one leading numbering
\* is removed, _detect_heading returns the original text without the
\* numbering, title-cased.
HeadingIsCleanedTitle ==
    (Returned("_detect_heading") /\ WholeLineHeading(call.args[1])) =>
        /\ call.result = Title(Unnumbered(call.args[1]))
        /\ ~IsDigit(Head(call.result))
        /\ call.args[1] = <<"1", ".", " ", "I", "n", "t", "r", "o", "d", "u", "c", "t", "i", "o", "n">> => call.result = <<"I", "n", "t", "r", "o", "d", "u", "c", "t", "i", "o", "n">>
        /\ call.args[1] = <<"2", ")", " ", "M", "e", "t", "h", "o", "d", "o", "l", "o", "g", "y">> => call.result = <<"M", "e", "t", "h", "o", "d", "o", "l", "o", "g", "y">>

\* witness of C12: a numbered heading of two words in capitals was returned
HeadingIsCleanedWitness ==
    /\ Returned("_detect_heading")
    /\ WholeLineHeading(call.args[1])
    /\ NumberingLen(Strip(call.args[1])) > 0
    /\ Len(Words(call.args[1])) >= 3
    /\ call.result # Unnumbered(call.args[1])

\* C13: for a line that is no recognized heading as a whole, _detect_heading
\* returns nothing, even when a heading word occurs in it; parse_text takes
\* the line as body text and leaves the current section alone.
NoHeadingInsideSentence ==
    (Returned("_detect_heading") /\ ~WholeLineHeading(call.args[1])) =>
        /\ call.result = None
        /\ Strip(call.args[1]) # <<>> =>
              /\ TextLineStep(Seed(None), call.args[1]).cur = Uncategorized
              /\ TextLineStep(Seed(None), call.args[1]).order = <<Uncategorized>>
              /\ TextLineStep(Seed(None), call.args[1]).buf = <<Strip(call.args[1])>>

\* witness of C13: a sentence that holds a heading word was given
NoHeadingInsideSentenceWitness ==
    /\ Returned("_detect_heading")
    /\ ~WholeLineHeading(call.args[1])
    /\ \E i \in 1..Len(Words(Lower(call.args[1]))) : <<Words(Lower(call.args[1]))[i]>> \in Range(SECTION_PATTERNS)
    /\ call.result = None

\* C14: with previous line "Figure 1: Sample output" and no caption in the
\* current line _detect_caption returns the previous line; with an unrelated
\* previous line and current line "Fig. 2 - Growth chart" it returns the
\* current line.
CaptionExamplesBind ==
    Returned("_detect_caption") =>
        /\ (/\ call.args[1] = <<"F", "i", "g", "u", "r", "e", " ", "1", ":", " ", "S", "a", "m", "p", "l", "e", " ", "o", "u", "t", "p", "u", "t">>
            /\ call.args[2] \in {None, <<>>, <<"u", "n", "r", "e", "l", "a", "t", "e", "d", " ", "t", "e", "x", "t">>})
              => call.result = call.args[1]
        /\ (/\ call.args[1] = <<"u", "n", "r", "e", "l", "a", "t", "e", "d", " ", "t", "e", "x", "t">>
            /\ call.args[2] = <<"F", "i", "g", ".", " ", "2", " ", "-", " ", "G", "r", "o", "w", "t", "h", " ", "c", "h", "a", "r", "t">>)
              => call.result = call.args[2]

\* the line is present and has the shape of a figure caption
IsCaption(line) == Truthy(line) /\ FIGURE_CAPTION_PATTERN(line)

\* C15: _detect_caption looks at the previous line first and at the current
\* line second; it returns the previous line when that is a caption, else
\* the current line when that is a caption, else nothing, and the result is
\* always an argument as given or nothing.
CaptionPreviousFirst ==
    Returned("_detect_caption") =>
        /\ IsCaption(call.args[1]) => call.result = call.args[1]
        /\ (~IsCaption(call.args[1]) /\ IsCaption(call.args[2])) => call.result = call.args[2]
        /\ (~IsCaption(call.args[1]) /\ ~IsCaption(call.args[2])) => call.result = None
        /\ (~Truthy(call.args[1]) /\ ~Truthy(call.args[2])) => call.result = None
        /\ call.result \in {call.args[1], call.args[2], None}

\* witness of C15: two different captions were given
CaptionPreviousFirstWitness ==
    /\ Returned("_detect_caption")
    /\ IsCaption(call.args[1])
    /\ IsCaption(call.args[2])
    /\ call.args[1] # call.args[2]
    /\ call.result = call.args[1]

\* the rules of predict_section, stated on the text
IsShort(text) == Len(Strip(text)) < 20

HasBracketedNumber(text) ==
    LET t == Strip(text)
    IN  \E n \in 1..(Len(t) - 2) :
            /\ t[1] = "["
            /\ \A i \in 2..(n + 1) : IsDigit(t[i])
            /\ t[n + 2] = "]"

HasLinkMarker(text) == \E m \in {<<"d", "o", "i", ".", "o", "r", "g">>, <<"h", "t", "t", "p", ":", "/", "/">>, <<"h", "t", "t", "p", "s", ":", "/", "/">>} : Contains(Lower(text), m)

HasCustomKeyword(text) == \E k \in CustomKeywords : Contains(Lower(text), k)

DecidedByRule(text) == IsShort(text) \/ HasBracketedNumber(text) \/ HasLinkMarker(text) \/ HasCustomKeyword(text)

Custom == Title(CUSTOM)

References == Title(REFERENCES)

\* C16: predict_section applies its rules in a fixed order, the first match
\* winning: short text is Custom, then a leading bracketed number is
\* References, then a link marker is References, then a keyword is Custom,
\* and only otherwise the classifier's label is returned.
RulesInFixedOrder ==
    Returned("predict_section") =>
        LET t == call.args[1]
            label == Title(call.result)
        IN  /\ IsShort(t) => label = Custom
            /\ (~IsShort(t) /\ HasBracketedNumber(t)) => label = References
            /\ (~IsShort(t) /\ ~HasBracketedNumber(t) /\ HasLinkMarker(t)) => label = References
            /\ (~IsShort(t) /\ ~HasBracketedNumber(t) /\ ~HasLinkMarker(t) /\ HasCustomKeyword(t)) => label = Custom
            /\ ~DecidedByRule(t) => call.result = call.args[2]

\* witness of C16: a short text that starts with a bracketed number, a short
\* text that holds a link or a long text with a link and a keyword was
\* labelled
RulesInFixedOrderWitness ==
    /\ Returned("predict_section")
    /\ \/ IsShort(call.args[1]) /\ HasBracketedNumber(call.args[1])
       \/ IsShort(call.args[1]) /\ HasLinkMarker(call.args[1])
       \/ ~IsShort(call.args[1]) /\ HasLinkMarker(call.args[1]) /\ HasCustomKeyword(call.args[1])

\* C17: for a text decided by the rules the returned label is the same
\* whatever the classifier predicts; the bracketed reference with a DOI link
\* is References.
RuleLabelIgnoresClassifier ==
    (Returned("predict_section") /\ DecidedByRule(call.args[1])) =>
        /\ \A l \in Labels : PredictSection(call.args[1], l) = call.result
        /\ call.args[1] = <<"[", "7", "]", " ", "S", "m", "i", "t", "h", " ", "e", "t", " ", "a", "l", ".", ",", " ", "2", "0", "2", "0", ",", " ", "h", "t", "t", "p", "s", ":", "/", "/", "d", "o", "i", ".", "o", "r", "g", "/", "1", "0", ".", "1", "/", "x">> => Title(call.result) = References

\* witness of C17: the classifier predicted another label for the bracketed
\* reference
RuleLabelWitness ==
    /\ Returned("predict_section")
    /\ call.args[1] = <<"[", "7", "]", " ", "S", "m", "i", "t", "h", " ", "e", "t", " ", "a", "l", ".", ",", " ", "2", "0", "2", "0", ",", " ", "h", "t", "t", "p", "s", ":", "/", "/", "d", "o", "i", ".", "o", "r", "g", "/", "1", "0", ".", "1", "/", "x">>
    /\ call.args[2] # REFERENCES
    /\ call.result = REFERENCES

\* C18: with the classifier unavailable a text decided by the rules still
\* gets its rule label, and only a text that reaches the classifier fails.
RulesSurviveMissingClassifier ==
    (call.fn = "predict_section" /\ call.status # "pending" /\ ~call.args[3][1]) =>
        /\ DecidedByRule(call.args[1]) =>
              /\ call.status = "returned"
              /\ call.result = PredictSection(call.args[1], call.args[2])
        /\ ~DecidedByRule(call.args[1]) => call.status = "raised"

\* the words that announce a figure
FigureWords == {<<"f", "i", "g", "u", "r", "e">>, <<"f", "i", "g", ".">>, <<"g", "r", "a", "p", "h">>, <<"c", "h", "a", "r", "t">>, <<"p", "l", "o", "t">>, <<"d", "i", "a", "g", "r", "a", "m">>}

\* C19: detect_virtual_image returns a virtual image without path, with the
\* whole line as caption and an empty alt_text exactly when the line holds
\* one of the figure words in any case; for every other line it returns
\* nothing.
VirtualImageExactlyOnFigureWords ==
    Returned("detect_virtual_image") =>
        IF \E k \in FigureWords : Contains(Lower(call.args[1]), k)
        THEN call.result = [type |-> "image", path |-> None, caption |-> call.args[1], virtual |-> TRUE, alt_text |-> <<>>]
        ELSE call.result = NoElement

\* witness of C19: a line with a figure word in capitals gave a virtual image
VirtualImageWitness ==
    /\ Returned("detect_virtual_image")
    /\ call.result # NoElement
    /\ call.result.virtual
    /\ call.args[1] # Lower(call.args[1])
    /\ ~\E k \in FigureWords : Contains(call.args[1], k)

\* xs is the beginning of ys
IsPrefix(xs, ys) == Len(xs) <= Len(ys) /\ SubSeq(ys, 1, Len(xs)) = xs

\* the elements the model holds under a name, none for a name it lacks
Held(d, name) == IF Has(d, name) THEN Get(d, name) ELSE <<>>

\* the heading the next line of parse_text is, or None
NextHeading ==
    IF pc = "parse_text" /\ todo # <<>> /\ Strip(Head(todo)) # <<>>
    THEN DetectHeading(Strip(Head(todo)))
    ELSE None

\* the step of parse_text over a heading line
HeadingStepEffect ==
    LET h == NextHeading
        old == current_section
        para == Strip(JoinSpace(buffer))
    IN  /\ buffer' = <<>>
        /\ current_section' = h
        /\ Held(Model', old) = (IF buffer # <<>> THEN Append(Get(Model, old), TextEl(para)) ELSE Get(Model, old))
        /\ \A name \in Keys(Model) \ {old} : Get(Model', name) = Get(Model, name)
        /\ IF Has(Model, h)
           THEN /\ KeyList(Model') = KeyList(Model)
                /\ detected_order' = detected_order
           ELSE /\ KeyList(Model') = Append(KeyList(Model), h)
                /\ detected_order' = Append(detected_order, h)
                /\ Get(Model', h) = <<>>

\* C20: at a heading of parse_text the buffered text becomes a Text element
\* of the section that was current before the heading, then the cursor
\* moves; a name seen before adds no section and no order entry, and every
\* later line only appends after the elements a section already holds.
HeadingFlushesBeforeMove ==
    [][/\ (Truthy(NextHeading) /\ todo' = Tail(todo)) => HeadingStepEffect
       /\ (pc = "parse_text" /\ pc' = "parse_text") =>
              \A name \in Keys(Model) : IsPrefix(Get(Model, name), Held(Model', name))]_vars

\* witness of C20: a heading seen before was reached with text in the
\* buffer, and its section already holds elements
HeadingFlushesWitness ==
    /\ pc = "parse_text"
    /\ input.kind = "text"
    /\ LET n == Len(Units(input)) - Len(todo)
       IN  /\ n >= 3
           /\ IsHeadingUnit(input, n)
           /\ UnitText(input, n - 1) # <<>>
           /\ ~IsHeadingUnit(input, n - 1)
           /\ \E j \in 1..(n - 2) : UnitHeading(input, j) = UnitHeading(input, n)
           /\ current_section = UnitHeading(input, n)
           /\ SectionAtUnit(input, n - 1) # current_section
           /\ Get(Model, SectionAtUnit(input, n - 1)) # <<>>
    /\ Get(Model, current_section) # <<>>
    /\ buffer = <<>>

\* a parse is running
Parsing == pc \in {"parse_text", "parse_docx"}

\* number of lines or body blocks the running parse has visited
Visited == Len(Units(input)) - Len(todo)

\* position of the first heading of the input, one past the end without one
FirstHeadingAt(inp) ==
    Min({i \in 1..Len(Units(inp)) : IsHeadingUnit(inp, i)} \cup {Len(Units(inp)) + 1})

\* C21: both parsers start in "Uncategorized", seeded empty and first in
\* detected_order; the elements before the first heading are placed in
\* "Uncategorized", which is the first name of the final detected_order when
\* it is not pruned.
UncategorizedComesFirst ==
    /\ (Parsing /\ Visited = 0) =>
          /\ current_section = Uncategorized
          /\ Model = <<[k |-> Uncategorized, v |-> <<>>]>>
          /\ detected_order = <<Uncategorized>>
    /\ Parsing =>
          /\ detected_order # <<>>
          /\ Head(detected_order) = Uncategorized
          /\ Visited < FirstHeadingAt(input) => current_section = Uncategorized
    /\ Finished =>
          /\ Held(Model, Uncategorized) = SourceElements(input, Uncategorized, FirstHeadingAt(input) - 1)
          /\ Has(Model, Uncategorized) => Head(detected_order) = Uncategorized

\* witness of C21: a finished parse with elements before the first heading
\* and a section after it
UncategorizedWitness ==
    /\ Finished
    /\ Has(Model, Uncategorized)
    /\ Len(detected_order) >= 2
    /\ FirstHeadingAt(input) >= 2
    /\ FirstHeadingAt(input) <= Len(Units(input))

\* the rows of a table block as lists of stripped cell texts
StrippedRows(b) == [r \in 1..Len(b.rows) |-> [c \in 1..Len(b.rows[r]) |-> Strip(b.rows[r][c])]]

\* the body block parse_docx visits next
NextBlock == Head(todo)

\* one body block has been walked without an exception
BlockWalked == pc = "parse_docx" /\ todo # <<>> /\ todo' = Tail(todo)

\* C22: in parse_docx the elements of a body block are appended, at the
\* moment the block is visited, to the end of the section current then; a
\* table is appended as its rows of stripped cell texts; nothing is held
\* back, so what a section holds is never reordered and nothing earlier is
\* placed after something later.
BlocksAppendInBodyOrder ==
    [][/\ BlockWalked =>
              /\ buffer = <<>>
              /\ \A name \in Keys(Model) : IsPrefix(Get(Model, name), Get(Model', name))
              /\ \A name \in Keys(Model') \ {current_section'} : Get(Model', name) = Held(Model, name)
              /\ Get(Model', current_section') = Held(Model, current_section') \o UnitElements(input, Visited + 1)
              /\ NextBlock.type = "tbl" =>
                    /\ current_section' = current_section
                    /\ Get(Model', current_section) = Append(Get(Model, current_section), [type |-> "table", data |-> StrippedRows(NextBlock)])
              /\ (NextBlock.type = "p" /\ NextBlock.embeds # <<>> /\ ~IsHeadingUnit(input, Visited + 1)) =>
                    /\ current_section' = current_section
                    /\ Len(Get(Model', current_section)) = Len(Get(Model, current_section)) + Len(NextBlock.embeds)
                    /\ \A j \in (Len(Get(Model, current_section)) + 1)..Len(Get(Model', current_section)) :
                          Get(Model', current_section)[j].type = "image"
       /\ (pc = "parse_docx" /\ pc' = "return") =>
              \A name \in Keys(Model') : Get(Model', name) = Get(Model, name)]_vars

\* witness of C22: under a heading, a table with rows of unequal lengths or
\* an image was appended after a text
BlocksAppendWitness ==
    /\ pc = "parse_docx"
    /\ current_section # Uncategorized
    /\ LET els == Get(Model, current_section)
       IN  /\ Len(els) >= 2
           /\ els[1].type = "text"
           /\ els[Len(els)].type \in {"table", "image"}
    /\ \E name \in Keys(Model) : \E j \in 1..Len(Get(Model, name)) :
          /\ Get(Model, name)[j].type = "table"
          /\ Len(Get(Model, name)[j].data) >= 2
          /\ Len(Get(Model, name)[j].data[1]) # Len(Get(Model, name)[j].data[2])

\* the block is a paragraph with inline images whose text is no heading
IsImageParagraph(inp, i) ==
    /\ Units(inp)[i].type = "p"
    /\ Units(inp)[i].embeds # <<>>
    /\ ~IsHeadingUnit(inp, i)

\* C23: for every inline image of parse_docx the caption detector is given
\* the text of the paragraph just before the image's paragraph as previous
\* line, whatever that paragraph was, and the text of the image's own
\* paragraph as current line; all images of one paragraph get the same
\* caption.
CaptionFromNeighbourParagraphs ==
    [][BlockWalked =>
          /\ last_text = PrevParagraphText(input, Visited + 1)
          /\ IsImageParagraph(input, Visited + 1) =>
                LET old == Len(Get(Model, current_section))
                    new == Get(Model', current_section)
                IN  /\ Len(new) = old + Len(NextBlock.embeds)
                    /\ \A j \in (old + 1)..Len(new) :
                          new[j].caption = DetectCaption(PrevParagraphText(input, Visited + 1), Strip(NextBlock.text))]_vars

\* witness of C23: an image paragraph right after another image paragraph
\* took the text of that paragraph as caption, and a paragraph gave two
\* images
CaptionFromNeighbourWitness ==
    /\ pc = "parse_docx"
    /\ Visited >= 2
    /\ IsImageParagraph(input, Visited)
    /\ Units(input)[Visited - 1].type = "p"
    /\ IsImageParagraph(input, Visited - 1)
    /\ Len(Units(input)[Visited - 1].embeds) >= 2
    /\ LET els == Get(Model, current_section)
       IN  /\ els[Len(els)].caption = UnitText(input, Visited - 1)
           /\ els[Len(els)].caption # UnitText(input, Visited)
           /\ els[Len(els) - 1].caption = els[Len(els) - 2].caption

\* the text of a call as an input of parse_text
TextInput(text) == [kind |-> "text", text |-> text]

\* C24: in the classifier-assisted parse_text the classifier decides the
\* section only where no explicit heading is present: text that follows a
\* matched heading is placed in the section of that heading.
ExplicitHeadingDecides ==
    Returned("hybrid parse_text") =>
        \A i \in 1..Len(Units(TextInput(call.args[1]))) :
            (EndsRun(TextInput(call.args[1]), i) /\ SectionAtUnit(TextInput(call.args[1]), i) # Uncategorized) =>
                /\ Has(call.result.secs, SectionAtUnit(TextInput(call.args[1]), i))
                /\ TextEl(RunText(TextInput(call.args[1]), i)) \in Range(Get(call.result.secs, SectionAtUnit(TextInput(call.args[1]), i)))

\* detected_order is a duplicate-free list of exactly the keys of sections
\* and no section is empty
FinalizedShape ==
    /\ NoDuplicates(detected_order)
    /\ Range(detected_order) = Keys(Model)
    /\ \A name \in Keys(Model) : Get(Model, name) # <<>>

\* the tables and images import_pdf has recorded, in the order of attachment
RecordedItems == Scan(input.pdf).tables \o Scan(input.pdf).images

\* one recorded table or image has been attached
Attached == pc = "attach" /\ todo # <<>> /\ todo' = Tail(todo)

KeysIterateInDetectedOrder == KeyList(Model) = detected_order

\* witness of C26: a finished parse whose cleanup removed the first section
\* and kept several others
KeysIterateWitness ==
    /\ Finished
    /\ Len(Model) >= 2
    /\ Head(detected_order) # Uncategorized
    /\ Model[1].k = detected_order[1]
    /\ Model[Len(Model)].k = detected_order[Len(detected_order)]
    /\ Model[1].k # Model[Len(Model)].k

\* C27: for every PDF with readable text and at least one extracted table
\* or image the attachment completes without error, the fallback to the
\* last section of detected_order is defined whenever it is taken, and
\* every table and image ends up in the model.
AttachmentAlwaysCompletes ==
    (input.kind = "pdf" /\ input.pdf.readable /\ RawText(Scan(input.pdf).page_texts) # <<>> /\ RecordedItems # <<>>) =>
        /\ pc \notin {"raised", "failed"}
        /\ (pc = "attach" /\ todo # <<>> /\ Head(todo).sec \notin Keys(Model)) => detected_order # <<>>
        /\ pc = "imported" =>
              \A i \in 1..Len(RecordedItems) :
                  \E name \in Keys(Model) : RecordedItems[i].el \in Range(Get(Model, name))

\* the words of the body lines 1..n that lie in section name, in source order
RECURSIVE BodyWords(_, _, _)
BodyWords(inp, name, n) ==
    IF n = 0 THEN <<>>
    ELSE BodyWords(inp, name, n - 1)
         \o (IF IsBodyLine(inp, n) /\ SectionAtUnit(inp, n) = name THEN Words(UnitText(inp, n)) ELSE <<>>)

\* the words of the Text elements of a section, in their order
RECURSIVE TextWords(_)
TextWords(els) ==
    IF els = <<>> THEN <<>>
    ELSE (IF Head(els).type = "text" THEN Words(Head(els).content) ELSE <<>>) \o TextWords(Tail(els))

\* C28: parse_text conserves content: within each section the Text elements
\* hold the non-blank non-heading lines of that section, each once and in
\* source order, nothing of a heading line, and no Text element is empty or
\* blank.
TextIsConserved ==
    (Finished /\ input.kind = "text") =>
        /\ \A i \in 1..Len(Units(input)) : IsBodyLine(input, i) => Has(Model, SectionAtUnit(input, i))
        /\ \A name \in Keys(Model) :
              /\ TextWords(Get(Model, name)) = BodyWords(input, name, Len(Units(input)))
              /\ \A j \in 1..Len(Get(Model, name)) :
                    /\ Get(Model, name)[j].type = "text"
                    /\ Strip(Get(Model, name)[j].content) # <<>>
                    /\ Strip(Get(Model, name)[j].content) = Get(Model, name)[j].content

\* witness of C28: a finished text parse with a section that was entered
\* twice and a paragraph of several lines
TextIsConservedWitness ==
    /\ Finished
    /\ input.kind = "text"
    /\ \E name \in Keys(Model) : Len(Get(Model, name)) >= 2
    /\ \E i \in 1..Len(Units(input)) : EndsRun(input, i) /\ RunStart(input, i) < i
    /\ \E i \in 1..Len(Units(input)) : IsHeadingUnit(input, i)

\* C29: parse_docx conserves paragraph text: the text of every non-empty
\* paragraph that is no heading is a Text element of the section current at
\* that paragraph, also when the paragraph holds inline images.
ParagraphTextIsConserved ==
    (Finished /\ input.kind = "docx") =>
        \A i \in 1..Len(Units(input)) :
            (Units(input)[i].type = "p" /\ UnitText(input, i) # <<>> /\ ~IsHeadingUnit(input, i)) =>
                TextEl(UnitText(input, i)) \in Range(Held(Model, SectionAtUnit(input, i)))

\* number of inline image references in the blocks 1..n that lie in section
\* name
RECURSIVE EmbedCount(_, _, _)
EmbedCount(inp, name, n) ==
    IF n = 0 THEN 0
    ELSE EmbedCount(inp, name, n - 1)
         + (IF SectionAtUnit(inp, n) = name THEN Len(Units(inp)[n].embeds) ELSE 0)

\* number of extracted (not virtual) Image elements in a list
ImageCount(els) == Cardinality({j \in 1..Len(els) : els[j].type = "image" /\ ~els[j].virtual})

\* the names of the sections the blocks of the input lie in
SourceSections(inp) == {SectionAtUnit(inp, i) : i \in 1..Len(Units(inp))}

\* C30: parse_docx conserves images: every inline image reference of the
\* body gives exactly one Image element with virtual = false in the section
\* current at its paragraph, also when the text of the paragraph is a
\* heading.
ImagesAreConserved ==
    (Finished /\ input.kind = "docx") =>
        \A name \in SourceSections(input) \cup Keys(Model) :
            ImageCount(Held(Model, name)) = EmbedCount(input, name, Len(Units(input)))
====
